---------------------------- MODULE Spec2Model ----------------------------
(***************************************************************************)
(* A model of the zipline component pipeline: the Controller               *)
(* (zipline/monitor.py), the Feed (zipline/components/feed.py), the order  *)
(* loop between the Trading Client and the Order Source                    *)
(* (zipline/finance/trading.py), the run loop of a component               *)
(* (zipline/component.py), the fill models of the transaction simulator    *)
(* (zipline/finance/slippage.py, zipline/finance/trading.py), the          *)
(* Performance Tracker with its periods and positions                      *)
(* (zipline/finance/performance.py), the frames of the wire protocol       *)
(* (zipline/protocol.py), the work step of a transform                     *)
(* (zipline/transforms/base.py) and the returns from a prior close         *)
(* (zipline/gens/returns.py).                                              *)
(*                                                                         *)
(* The specifications of the module share its variables:                   *)
(*   SpecCtl     the Controller's heartbeat loop and its message handlers; *)
(*   SpecCtlLive SpecCtl with the loop of _poll scheduled fairly;          *)
(*   SpecFeed    the Feed driven by arbitrary sources;                     *)
(*   SpecPipe    trade sources, Order Source, Feed and Trading Client;     *)
(*   SpecLoop    the confirm / do_work loop of one component;              *)
(*   SpecFill    open orders and the three fill paths applied to trades;   *)
(*   SpecClient  the Trading Client driven by an arbitrary result feed;    *)
(*   SpecPerf    the Performance Tracker driven by the trades of a market; *)
(*   SpecWire    frames packed and unpacked by the protocol;               *)
(*   SpecAcct    one Position and one PerformancePeriod under transactions;*)
(*   SpecSim     the transaction simulator run as a transform;             *)
(*   SpecReturns the returns tracker fed with priced events.               *)
(***************************************************************************)
EXTENDS Integers, Sequences, FiniteSets, TLC

VARIABLES
    \* ---- Controller (monitor.py) ----
    tracked,        \* Controller.tracked
    responses,      \* Controller.responses
    ctime,          \* Controller.ctime: the timestamp of the current period
    freeform,       \* Controller.freeform
    topology,       \* Controller.topology
    polling,        \* Controller.polling
    state,          \* Controller.state
    ctl_pc,         \* the Controller's position: new / managed / poll / beat / crashed
    ctl_error,      \* the exception that left _poll, or "none"
    timed_out,      \* components fail() reported as timed out
    exc_reported,   \* components whose EXCEPTION message was handled
    done_handled,   \* components whose DONE message was handled
    terminated,     \* Controller.terminated: set once the loop of _poll is left
    \* ---- Feed (components/feed.py) ----
    data_buffer,    \* Feed.data_buffer: source_id -> list of events
    draining,       \* Feed.draining
    recv_counters,  \* Feed.recv_counters
    feed_socket,    \* every frame the Feed sent on feed_socket, in order
    finished,       \* the sources whose DONE the Feed has seen
    feed_done,      \* the Feed has signalled DONE downstream
    iter_order,     \* the iteration order of data_buffer.values()
    appended,       \* the non-filler events given to append()
    \* ---- sources, Trading Client, Order Source (finance/trading.py) ----
    data_chan,      \* frames in flight from each source to the Feed
    event_list,     \* SpecificEquityTrades.event_list: trades still to send
    src_done,       \* the sources whose loop has ended (Component.done)
    order_socket,   \* frames in flight from the client to the Order Source
    sent_count,     \* OrderDataSource.sent_count
    count,          \* OrderDataSource.do_work: count
    os_pc,          \* the Order Source's position: top / select / done
    current_dt,     \* TradeSimulationClient.current_dt
    client_read,    \* number of feed frames the client has received
    client_done,    \* the client's loop has ended
    orders_placed,  \* number of order() calls made by the algorithm
    iter_sent,      \* OrderDataSource.do_work: the events sent in the iteration under way
    last_iter,      \* the latest iteration that ended on BREAK: its count and what it sent
    client_error,   \* the exception that left the client's do_work, or "none"
    client_txn_count, \* TradeSimulationClient.txn_count
    event_queue,    \* TradeSimulationClient.event_queue
    perf_log,       \* the events given to PerformanceTracker.process_event, in order
    frames,         \* the handle_frame callbacks made, in order
    client_log,     \* the end-of-stream calls of the client, in order
    \* ---- the run loop of a component (component.py) ----
    loop_pc,        \* position in Component.loop: loop / work / exited / raised
    comp_done,      \* Component.done
    work_left,      \* events the component still has to send before it is done
    call_log,       \* the calls of confirm, do_work and signal_done, in order
    \* ---- the transaction simulator (finance/slippage.py, finance/trading.py) ----
    style,          \* the fill path in use
    spread,         \* FixedSlippage.spread
    open_orders,    \* open_orders: sid -> list of orders
    order_count,    \* TransactionSimulator.order_count
    fill_clock,     \* the dt of the latest event the simulator has seen
    orders_before,         \* open_orders as the latest trade found them
    last_trade,     \* the latest trade, or NoTrade after an order
    last_txn,       \* what the latest trade returned
    last_fills,     \* the latest trade's orders after the fill loop, removed ones included
    \* ---- the Performance Tracker (finance/performance.py) ----
    perf,           \* the PerformanceTracker: its fields, periods and positions
    perf_error,     \* the exception that left process_event, or "none"
    last_event,     \* the latest event given to process_event
    last_rollover,  \* the tracker before and after the latest event's rollover
    txn_sums,       \* sid -> sum of the amounts of the transactions executed
    closed_sids,    \* the sids whose position a transaction has closed to zero
    \* ---- the wire formats (protocol.py) ----
    wire_in,        \* the event or transaction given to a FRAME function
    wire_msg,       \* what the FRAME function returned
    wire_out,       \* what the UNFRAME function made of it
    \* ---- a Position and a PerformancePeriod called directly (finance/performance.py) ----
    acct_position,  \* a Position object
    acct_period,    \* a PerformancePeriod object
    acct_call,      \* the latest call made on either, and the exception it raised
    \* ---- the transaction simulator as a transform (transforms/base.py) ----
    sim_state,      \* BaseTransform.state: the name of the transform and its latest value
    feed_recv,      \* the events received on feed_socket, in order
    result_socket,  \* the frames sent on result_socket, in order
    pushed_for,     \* for each frame sent, the position in feed_recv of its event
    sim_done,       \* Component.done of the transform
    \* ---- returns from a prior close (gens/returns.py) ----
    returns_tracker, \* a ReturnsFromPriorClose object
    returns_fed      \* the events given to its update(), in order

ctlVars  == <<tracked, responses, ctime, freeform, topology, polling, state,
              ctl_pc, ctl_error, timed_out, exc_reported, done_handled,
              terminated>>
feedVars == <<data_buffer, draining, recv_counters, feed_socket, finished,
              feed_done, iter_order, appended>>
pipeVars == <<data_chan, event_list, src_done, order_socket, sent_count, count,
              os_pc, current_dt, client_read, client_done, orders_placed>>
osVars     == <<iter_sent, last_iter>>
clientVars == <<client_error, client_txn_count, event_queue, perf_log, frames,
                client_log>>
loopVars == <<loop_pc, comp_done, work_left, call_log>>
fillVars == <<style, spread, open_orders, order_count, fill_clock, orders_before,
              last_trade, last_txn, last_fills>>
perfVars == <<perf, perf_error, last_event, last_rollover, txn_sums, closed_sids>>
wireVars == <<wire_in, wire_msg, wire_out>>
acctVars == <<acct_position, acct_period, acct_call>>
simVars  == <<sim_state, feed_recv, result_socket, pushed_for, sim_done>>
retVars  == <<returns_tracker, returns_fed>>
extVars  == <<wireVars, acctVars, simVars, retVars>>
auxVars  == <<loopVars, fillVars, osVars, clientVars, perfVars, extVars>>
vars     == <<ctlVars, feedVars, pipeVars, auxVars>>

(***************************************************************************)
(* Bounds                                                                  *)
(***************************************************************************)
MaxBeats   == 3     \* heartbeat periods explored
MaxEvents  == 4     \* events (fillers included) the sources hand to the Feed
MaxDt      == 2     \* timestamps are 1..MaxDt
MaxTrades  == 2     \* trades in the trade sources' event lists, altogether
MaxOrders  == 2     \* order() calls of the algorithm
NumSources == 2     \* sources registered with the Feed
MaxWork    == 3     \* events a looping component has to send
MaxTime    == 4     \* datetimes of the Calendar in use
MaxAmount  == 3     \* order amounts are -MaxAmount..MaxAmount
MaxFillOrders == 2  \* orders handed to the transaction simulator

(***************************************************************************)
(* The Controller: zipline/monitor.py                                      *)
(***************************************************************************)
Components == {"feed", "merge", "stray"}

\* CONTROL_STATES in the order manage() lists them
RUNNING   == "RUNNING"
SHUTDOWN  == "SHUTDOWN"
TERMINATE == "TERMINATE"
default_states == <<RUNNING, SHUTDOWN, TERMINATE>>

\* the replies handle_recv tells apart
OK        == "OK"
DONE      == "DONE"
EXCEPTION == "EXCEPTION"

InitCtlVars ==
    /\ tracked = {}
    /\ responses = {}
    /\ ctime = 0
    /\ freeform = FALSE
    /\ topology = {}
    /\ polling = FALSE
    /\ state = "unset"
    /\ ctl_pc = "new"
    /\ ctl_error = "none"
    /\ timed_out = {}
    /\ exc_reported = {}
    /\ done_handled = {}
    /\ terminated = FALSE          \* __init__ and manage() do not set it

\* manage(topology): free stands for topology == 'freeform'
Manage(free, topo) ==
    /\ ctl_pc = "new"
    /\ freeform' = free
    /\ topology' = IF free THEN {} ELSE topo
    /\ polling' = TRUE
    /\ state' = default_states[1]
    /\ ctl_pc' = "managed"
    /\ UNCHANGED <<tracked, responses, ctime, ctl_error, timed_out,
                   exc_reported, done_handled, terminated>>

\* _poll, the head of one iteration of the for loop: reset the responses and
\* broadcast a new ctime.  The loop runs over itertools.count(0) and holds no
\* break or return: the statement after it, self.terminated = True, is not
\* reached, and an iteration starts whatever polling and state are.
Heartbeat ==
    /\ ctl_pc \in {"managed", "beat"}
    /\ ctime < MaxBeats
    /\ responses' = {}
    /\ ctime' = ctime + 1
    /\ ctl_pc' = "poll"
    /\ UNCHANGED <<tracked, freeform, topology, polling, state, ctl_error,
                   timed_out, exc_reported, done_handled, terminated>>

\* handle_recv(msg): identity sent (id, status); status is the ctime echoed
handle_recv(identity, id, status) ==
    /\ ctl_pc = "poll"
    /\ polling
    /\ responses' = IF id = OK /\ status = ctime
                    THEN responses \cup {identity} ELSE responses
    /\ exc_reported' = IF id = EXCEPTION
                       THEN exc_reported \cup {identity} ELSE exc_reported
       \* done(identity, status) is called with one argument more than
       \* done(self, component) takes: the call raises TypeError, which
       \* _poll does not catch
    /\ done_handled' = IF id = DONE
                       THEN done_handled \cup {identity} ELSE done_handled
    /\ ctl_error' = IF id = DONE THEN "TypeError" ELSE ctl_error
    /\ ctl_pc' = IF id = DONE THEN "crashed" ELSE ctl_pc
    /\ UNCHANGED <<tracked, ctime, freeform, topology, polling, state, timed_out,
                   terminated>>

\* beat(): the three sets
BeatGood(tr, resp) == tr \cap resp
BeatBadMut(tr, resp) == {}
BeatBad(tr, resp)  == tr \ BeatGood(tr, resp)
BeatNew(tr, resp)  == resp \ BeatGood(tr, resp)

\* new(component): admitted or UnknownChatter
AdmittedMut(component) == TRUE
Admitted(component) == component \in topology \/ freeform

\* beat(), run when the polling window of the period closes (or at once
\* when polling is False).  new() raises on the first component of `new`
\* that is not admitted; the components the set iteration visited before it
\* are already tracked, and fail() is not reached.
beat ==
    /\ ctl_pc = "poll"
    /\ LET new == BeatNew(tracked, responses)
           bad == BeatBad(tracked, responses)
       IN  IF \A c \in new : Admitted(c)
           THEN /\ tracked' = (tracked \cup new) \ bad
                /\ timed_out' = timed_out \cup bad
                /\ ctl_error' = ctl_error
                /\ ctl_pc' = "beat"
           ELSE /\ \E before \in SUBSET {c \in new : Admitted(c)} :
                       tracked' = tracked \cup before
                /\ timed_out' = timed_out
                /\ ctl_error' = "UnknownChatter"
                /\ ctl_pc' = "crashed"
    /\ UNCHANGED <<responses, ctime, freeform, topology, polling, state,
                   exc_reported, done_handled, terminated>>

\* shutdown(hard, soft)
shutdown(hard, soft) ==
    /\ ctl_pc \in {"managed", "poll", "beat"}
    /\ polling' = FALSE
    /\ IF ~(hard \/ soft)
       THEN state' = state          \* the assert fails after polling is cleared
       ELSE state' = IF soft THEN TERMINATE ELSE SHUTDOWN
    /\ UNCHANGED <<tracked, responses, ctime, freeform, topology, ctl_pc,
                   ctl_error, timed_out, exc_reported, done_handled, terminated>>


(***************************************************************************)
(* The Feed: zipline/components/feed.py                                    *)
(***************************************************************************)
\* source ids, numbered in the lexicographic order of their names
Sources == 1..NumSources

\* dt of a filler event: DATASOURCE_UNFRAME gives it dt = None
None == 0
Dts == 1..MaxDt

\* an event: its source, its dt and its position in the source's stream
Event(s, d, k) == [source_id |-> s, dt |-> d, n |-> k]
NoEvent == Event(0, None, 0)

RECURSIVE SeqSum(_)
SeqSum(q) == IF q = <<>> THEN 0 ELSE Head(q) + SeqSum(Tail(q))

Perms == {p \in [1..NumSources -> Sources] : \A i, j \in 1..NumSources : p[i] = p[j] => i = j}

InitFeedVars ==
    /\ data_buffer = [s \in Sources |-> <<>>]
    /\ draining = FALSE
    /\ recv_counters = [s \in Sources |-> 0]
    /\ feed_socket = <<>>
    /\ finished = {}
    /\ feed_done = FALSE
    /\ appended = {}

\* is_full(): every registered source has a buffered event or has signalled DONE
is_full(buf, fin) == \A s \in Sources : buf[s] # <<>> \/ s \in fin

\* pending_messages(): the number of buffered events
pending_messages(buf) == SeqSum([i \in 1..NumSources |-> Len(buf[i])])

\* the test of next() that replaces the earliest event found so far
Earlier(first_in_list, earliest_event) ==
    earliest_event = NoEvent \/ first_in_list.dt <= earliest_event.dt

\* the test of next() for a filler event
IsFillerMut(first_in_list) == FALSE
IsFiller(first_in_list) == first_in_list.dt = None

\* next(): the loop over data_buffer.values(), from position i of the
\* iteration order, then the pop of the earliest source.  The result is the
\* buffer after the call and the event returned (NoEvent for None).
RECURSIVE NextLoop(_, _, _, _, _)
NextLoop(buf, order, i, earliest_event, earliest_source) ==
    IF i > Len(order)
    THEN IF earliest_event # NoEvent
         THEN [buf   |-> [buf EXCEPT ![earliest_source] = Tail(@)],
               event |-> Head(buf[earliest_source])]
         ELSE [buf |-> buf, event |-> NoEvent]
    ELSE LET events == buf[order[i]]
         IN  IF Len(events) = 0
             THEN NextLoop(buf, order, i + 1, earliest_event, earliest_source)
             ELSE IF IsFiller(Head(events))
             THEN NextLoop([buf EXCEPT ![order[i]] = Tail(events)], order, i + 1,
                           earliest_event, earliest_source)
             ELSE IF Earlier(Head(events), earliest_event)
             THEN NextLoop(buf, order, i + 1, Head(events), order[i])
             ELSE NextLoop(buf, order, i + 1, earliest_event, earliest_source)

next(buf, order) == NextLoop(buf, order, 1, NoEvent, 0)

\* the guard of send_next() and of next()
CanSendMut(buf, fin, drn) == TRUE
CanSend(buf, fin, drn) == is_full(buf, fin) \/ drn

\* send_next() on a Feed with buffer buf and sent frames out: the buffer and
\* the sent frames after the call
send_next(buf, out, fin, drn, order) ==
    IF ~CanSend(buf, fin, drn)
    THEN [buf |-> buf, out |-> out]
    ELSE LET r == next(buf, order)
         IN  [buf |-> r.buf,
              out |-> IF r.event # NoEvent THEN Append(out, r.event) ELSE out]

\* drain(): the while loop, with draining already set
RECURSIVE DrainLoop(_, _, _, _)
DrainLoop(buf, out, fin, order) ==
    IF pending_messages(buf) > 0
    THEN LET r == send_next(buf, out, fin, TRUE, order)
         IN  DrainLoop(r.buf, r.out, fin, order)
    ELSE [buf |-> buf, out |-> out]

\* the last non-filler dt source s handed over (a source's stream is in
\* non-decreasing dt order)
LastDt(s) ==
    LET mine == {e.dt : e \in {x \in appended : x.source_id = s}}
    IN  IF mine = {} THEN 1 ELSE CHOOSE d \in mine : \A o \in mine : o <= d

\* append(event)
append(s, d) ==
    /\ data_buffer' = [data_buffer EXCEPT ![s] = Append(@, Event(s, d, recv_counters[s] + 1))]
    /\ recv_counters' = [recv_counters EXCEPT ![s] = @ + 1]
    /\ appended' = IF d = None THEN appended
                   ELSE appended \cup {Event(s, d, recv_counters[s] + 1)}

\* a source hands the Feed one event
FeedAppend(s, d) ==
    /\ s \notin finished
    /\ SeqSum([i \in 1..NumSources |-> recv_counters[i]]) < MaxEvents
    /\ d = None \/ d >= LastDt(s)
    /\ append(s, d)
    /\ UNCHANGED <<draining, feed_socket, finished, feed_done, iter_order>>
    /\ UNCHANGED <<ctlVars, pipeVars, auxVars>>

\* a source signals DONE
FeedSourceDone(s) ==
    /\ s \notin finished
    /\ finished' = finished \cup {s}
    /\ UNCHANGED <<data_buffer, draining, recv_counters, feed_socket, feed_done,
                   iter_order, appended>>
    /\ UNCHANGED <<ctlVars, pipeVars, auxVars>>

\* send_next()
FeedSendNext ==
    /\ CanSend(data_buffer, finished, draining)
    /\ pending_messages(data_buffer) > 0
    /\ LET r == send_next(data_buffer, feed_socket, finished, draining, iter_order)
       IN  /\ data_buffer' = r.buf
           /\ feed_socket' = r.out
    /\ UNCHANGED <<draining, recv_counters, finished, feed_done, iter_order, appended>>
    /\ UNCHANGED <<ctlVars, pipeVars, auxVars>>

\* drain(), called once every source has signalled DONE
FeedDrain ==
    /\ finished = Sources
    /\ ~draining
    /\ draining' = TRUE
    /\ LET r == DrainLoop(data_buffer, feed_socket, finished, iter_order)
       IN  /\ data_buffer' = r.buf
           /\ feed_socket' = r.out
    /\ UNCHANGED <<recv_counters, finished, feed_done, iter_order, appended>>
    /\ UNCHANGED <<ctlVars, pipeVars, auxVars>>


(***************************************************************************)
(* Sources, Trading Client and Order Source: zipline/sources.py and        *)
(* zipline/finance/trading.py                                              *)
(***************************************************************************)
\* FINANCE_COMPONENT.ORDER_SOURCE; the other sources are trade sources
OrderSource == 1
TradeSources == Sources \ {OrderSource}

\* frames on the data socket and on the order socket
Frame(k, d) == [kind |-> k, dt |-> d]
BREAK == "BREAK"
ORDER == "ORDER"
EVENT == "EVENT"

\* chronologically ordered event lists of at most MaxTrades trades
EventLists ==
    {q \in UNION {[1..n -> Dts] : n \in 0..MaxTrades} :
        \A i \in 1..(Len(q) - 1) : q[i] <= q[i + 1]}

\* the event lists the trade sources are constructed with: MaxTrades trades
\* at most altogether, and at least one; the Order Source has none
InitialEventLists ==
    {f \in [Sources -> EventLists] :
        /\ f[OrderSource] = <<>>
        /\ SeqSum([i \in 1..NumSources |-> Len(f[i])]) \in 1..MaxTrades}

\* what one iteration of OrderDataSource.do_work that ended on BREAK did:
\* count, and the events it sent to the Feed
Iter(k, sent) == [ended |-> TRUE, count |-> k, sent |-> sent]
NoIter == [ended |-> FALSE, count |-> 0, sent |-> <<>>]

\* TradeSimulationClient.event_queue: None until queue_event makes it a list
NoQueue == [none |-> TRUE, events |-> <<>>]
Queue(q) == [none |-> FALSE, events |-> q]

InitPipeVars ==
    /\ data_chan = [s \in Sources |-> <<>>]
    /\ src_done = {}
    /\ order_socket = <<>>
    /\ sent_count = 0
    /\ count = 0
    /\ os_pc = "top"
    /\ current_dt = 1
    /\ client_read = 0
    /\ client_done = FALSE
    /\ orders_placed = 0
    /\ iter_sent = <<>>
    /\ last_iter = NoIter
    /\ client_error = "none"
    /\ client_txn_count = 0
    /\ event_queue = NoQueue
    /\ perf_log = <<>>
    /\ frames = <<>>
    /\ client_log = <<>>

\* SpecificEquityTrades.do_work
TradeWork(s) ==
    /\ s \in TradeSources
    /\ s \notin src_done
    /\ IF Len(event_list[s]) = 0
       THEN /\ data_chan' = [data_chan EXCEPT ![s] = Append(@, Frame(DONE, None))]
            /\ src_done' = src_done \cup {s}
            /\ UNCHANGED event_list
       ELSE /\ data_chan' = [data_chan EXCEPT ![s] = Append(@, Frame(EVENT, Head(event_list[s])))]
            /\ event_list' = [event_list EXCEPT ![s] = Tail(@)]
            /\ UNCHANGED src_done
    /\ UNCHANGED <<order_socket, sent_count, count, os_pc, current_dt, client_read,
                   client_done, orders_placed>>
    /\ UNCHANGED <<ctlVars, feedVars, auxVars>>

\* the Feed's do_work on a frame of source s: DONE is counted and, once every
\* source is done, the Feed drains and signals DONE; an event is appended
\* and send_next() is called
FeedWork(s) ==
    /\ ~feed_done
    /\ data_chan[s] # <<>>
    /\ data_chan' = [data_chan EXCEPT ![s] = Tail(@)]
    /\ LET msg == Head(data_chan[s])
       IN  IF msg.kind = DONE
           THEN /\ finished' = finished \cup {s}
                /\ IF finished' = Sources
                   THEN LET r == DrainLoop(data_buffer, feed_socket, finished', iter_order)
                        IN  /\ draining' = TRUE
                            /\ data_buffer' = r.buf
                            /\ feed_socket' = r.out
                            /\ feed_done' = TRUE
                   ELSE UNCHANGED <<draining, data_buffer, feed_socket, feed_done>>
                /\ UNCHANGED <<recv_counters, appended>>
           ELSE LET e  == Event(s, msg.dt, recv_counters[s] + 1)
                    b1 == [data_buffer EXCEPT ![s] = Append(@, e)]
                    r  == send_next(b1, feed_socket, finished, draining, iter_order)
                IN  /\ recv_counters' = [recv_counters EXCEPT ![s] = @ + 1]
                    /\ appended' = IF msg.dt = None THEN appended ELSE appended \cup {e}
                    /\ data_buffer' = r.buf
                    /\ feed_socket' = r.out
                    /\ UNCHANGED <<draining, finished, feed_done>>
    /\ UNCHANGED iter_order
    /\ UNCHANGED <<event_list, src_done, order_socket, sent_count, count, os_pc,
                   current_dt, client_read, client_done, orders_placed>>
    /\ UNCHANGED <<ctlVars, auxVars>>

\* run_algorithm(): the algorithm's handle_frame places k orders through
\* order(sid, amount), each stamped with current_dt
OrdersOf(k, dt) == [i \in 1..k |-> Frame(ORDER, dt)]

\* ORDER_FRAME (protocol.py) takes sid and amount; order() hands it the one
\* namedict it built
ORDER_FRAME_takes == 2
order_passes == 1

\* k calls of order(sid, amount): the frames they put on the order socket.  The call of
\* ORDER_FRAME raises TypeError unless it is given what it takes, and then
\* nothing is sent.
OrderRaises == order_passes # ORDER_FRAME_takes
OrderCalls(k, dt) == IF OrderRaises THEN <<>> ELSE OrdersOf(k, dt)

\* OrderDataSource.do_work up to the select(): the dummy order of the
\* iterations before the first order is sent
OrderTop ==
    /\ os_pc = "top"
    /\ data_chan' = IF sent_count = 0
                    THEN [data_chan EXCEPT ![OrderSource] = Append(@, Frame(EVENT, None))]
                    ELSE data_chan
    /\ count' = 0
    /\ os_pc' = "select"
    /\ iter_sent' = IF sent_count = 0 THEN <<Frame(EVENT, None)>> ELSE <<>>
    /\ UNCHANGED last_iter
    /\ UNCHANGED <<event_list, src_done, order_socket, sent_count, current_dt,
                   client_read, client_done, orders_placed>>
    /\ UNCHANGED <<ctlVars, feedVars, loopVars, fillVars, clientVars, perfVars, extVars>>

\* the timeout of the select() in OrderDataSource.do_work: none is passed,
\* so select() returns only when the order socket is readable
SelectReady(sock) == sock # <<>>

\* OrderDataSource.do_work: one pass of the while loop, from the select() on
OrderSelect ==
    /\ os_pc = "select"
    /\ SelectReady(order_socket)
    /\ IF order_socket = <<>>
       THEN \* timeout: signal_done()
            /\ data_chan' = [data_chan EXCEPT ![OrderSource] = Append(@, Frame(DONE, None))]
            /\ os_pc' = "done"
            /\ src_done' = src_done \cup {OrderSource}
            /\ UNCHANGED <<order_socket, count, sent_count, iter_sent, last_iter>>
       ELSE LET order_msg == Head(order_socket)
            IN  /\ order_socket' = Tail(order_socket)
                /\ CASE order_msg.kind = DONE ->
                          /\ data_chan' = [data_chan EXCEPT ![OrderSource] =
                                              Append(@, Frame(DONE, None))]
                          /\ os_pc' = "done"
                          /\ src_done' = src_done \cup {OrderSource}
                          /\ UNCHANGED <<count, sent_count, iter_sent, last_iter>>
                     [] order_msg.kind = BREAK ->
                          /\ data_chan' = IF count = 0
                                          THEN [data_chan EXCEPT ![OrderSource] =
                                                   Append(@, Frame(EVENT, None))]
                                          ELSE data_chan
                          /\ os_pc' = "top"
                          /\ last_iter' = Iter(count,
                                               IF count = 0
                                                  THEN Append(iter_sent, Frame(EVENT, None))
                                                  ELSE iter_sent)
                          /\ iter_sent' = <<>>
                          /\ UNCHANGED <<count, sent_count, src_done>>
                     [] order_msg.kind = ORDER ->
                          /\ data_chan' = [data_chan EXCEPT ![OrderSource] =
                                              Append(@, Frame(EVENT, order_msg.dt))]
                          /\ count' = count + 1
                          /\ sent_count' = sent_count + 1
                          /\ iter_sent' = Append(iter_sent, Frame(EVENT, order_msg.dt))
                          /\ UNCHANGED <<os_pc, src_done, last_iter>>
    /\ UNCHANGED <<event_list, current_dt, client_read, client_done, orders_placed>>
    /\ UNCHANGED <<ctlVars, feedVars, loopVars, fillVars, clientVars, perfVars, extVars>>

(***************************************************************************)
(* The run loop of a component: zipline/component.py, driven by the        *)
(* do_work of SpecificEquityTrades (zipline/sources.py)                    *)
(***************************************************************************)
\* Component.heartbeat_timeout, in milliseconds
heartbeat_timeout == 2000

\* the times, in milliseconds, the host may take to answer a sync request
AckDelays == {0, heartbeat_timeout \div 2, 2 * heartbeat_timeout}

Call(o, w) == [op |-> o, wait |-> w]

InitLoopVars ==
    /\ loop_pc = "loop"
    /\ comp_done = FALSE
    /\ work_left = 0
    /\ call_log = <<>>

\* receive_sync_ack: the poll returns the reply iff it came within the timeout
AckInTimeMut(wait) == TRUE
AckInTime(wait) == wait < heartbeat_timeout

\* loop: the test of `while not self.done` fails
LoopExit ==
    /\ loop_pc = "loop"
    /\ comp_done
    /\ loop_pc' = "exited"
    /\ UNCHANGED <<comp_done, work_left, call_log>>

\* loop: confirm(), whose receive_sync_ack raises on a timeout
confirm(wait) ==
    /\ loop_pc = "loop"
    /\ ~comp_done
    /\ call_log' = Append(call_log, Call("confirm", wait))
    /\ loop_pc' = IF AckInTime(wait) THEN "work" ELSE "raised"
    /\ UNCHANGED <<comp_done, work_left>>

\* signal_done, called from do_work: done is set after the acknowledgement
signal_done(log, wait) ==
    /\ call_log' = Append(log, Call("signal_done", wait))
    /\ IF AckInTime(wait)
          THEN comp_done' = TRUE /\ loop_pc' = "loop"
          ELSE comp_done' = comp_done /\ loop_pc' = "raised"

\* loop: do_work() of SpecificEquityTrades
do_work(wait) ==
    /\ loop_pc = "work"
    /\ IF work_left = 0
          THEN /\ signal_done(Append(call_log, Call("do_work", 0)), wait)
               /\ UNCHANGED work_left
          ELSE /\ work_left' = work_left - 1
               /\ call_log' = Append(call_log, Call("do_work", 0))
               /\ loop_pc' = "loop"
               /\ UNCHANGED comp_done

(***************************************************************************)
(* The Trading Client: TradeSimulationClient of zipline/finance/trading.py *)
(***************************************************************************)
\* a handle_frame callback: the events get_frame took from the queue, and how
\* many events the Performance Tracker had processed by then
Callback(q, n) == [events |-> q, processed |-> n]

\* Component.signal_done as the client runs it at end-of-stream: DONE goes
\* downstream and to the host, and done is set once the host acknowledged.
\* The hook stored in on_done is not called.
ClientSignalDone(log, wait) ==
    IF AckInTime(wait)
       THEN /\ client_done' = TRUE
            /\ client_log' = Append(log, "signal_done")
            /\ client_error' = client_error
       ELSE /\ client_done' = client_done
            /\ client_log' = log
            /\ client_error' = "Exception"

\* TradeSimulationClient.do_work on the next frame of the result feed (the
\* transform and the merge pass the Feed's frames on one for one; txn tells
\* whether the merged event carries a transaction).  k is the number of
\* order(sid, amount) calls, amount # 0, handle_frame makes; dur is the time
\* the iteration took.
ClientWork ==
    /\ ~client_done
    /\ client_error = "none"
    /\ IF client_read < Len(feed_socket)
       THEN LET event == feed_socket[client_read + 1]
            IN  /\ client_read' = client_read + 1
                /\ \E txn \in BOOLEAN :
                      /\ txn => event.source_id # OrderSource
                      /\ client_txn_count' = client_txn_count + (IF txn THEN 1 ELSE 0)
                /\ IF event.source_id # OrderSource
                   THEN \E k \in 0..1, dur \in 0..1 :
                          \* queue_event: the tracker first, then the queue
                          LET queued == Append(event_queue.events, event)
                              called == event.dt >= current_dt
                              raised == called /\ k = 1 /\ OrderRaises
                          IN  /\ k = 1 => called /\ orders_placed < MaxOrders
                              /\ perf_log' = Append(perf_log, event)
                              /\ event_queue' = Queue(IF called THEN <<>> ELSE queued)
                              /\ frames' = IF called
                                           THEN Append(frames, Callback(queued, Len(perf_log')))
                                           ELSE frames
                              /\ orders_placed' = orders_placed + k
                              /\ client_error' = IF raised THEN "TypeError" ELSE client_error
                              /\ order_socket' = IF raised THEN order_socket
                                                 ELSE order_socket \o OrderCalls(k, current_dt)
                                                         \o <<Frame(BREAK, None)>>
                              /\ current_dt' = IF ~raised /\ current_dt + dur <= MaxDt
                                               THEN current_dt + dur ELSE current_dt
                   ELSE /\ order_socket' = Append(order_socket, Frame(BREAK, None))
                        /\ UNCHANGED <<orders_placed, current_dt, perf_log, event_queue,
                                       frames, client_error>>
                /\ UNCHANGED <<client_done, client_log>>
       ELSE /\ feed_done
            /\ IF event_queue.none
               THEN \* run_algorithm: get_frame iterates over None
                    /\ client_error' = "TypeError"
                    /\ UNCHANGED <<orders_placed, order_socket, event_queue, frames,
                                   client_done, client_log>>
               ELSE \E k \in 0..1, wait \in AckDelays :
                      /\ k = 1 => orders_placed < MaxOrders
                      /\ orders_placed' = orders_placed + k
                      /\ event_queue' = Queue(<<>>)
                      /\ frames' = Append(frames, Callback(event_queue.events, Len(perf_log)))
                      /\ IF k = 1 /\ OrderRaises
                         THEN /\ client_error' = "TypeError"
                              /\ UNCHANGED <<order_socket, client_done, client_log>>
                         ELSE \* signal_order_done, then signal_done
                              /\ order_socket' = order_socket \o OrderCalls(k, current_dt)
                                                    \o <<Frame(DONE, None)>>
                              /\ ClientSignalDone(Append(client_log, "signal_order_done"), wait)
            /\ UNCHANGED <<client_read, current_dt, client_txn_count, perf_log>>
    /\ UNCHANGED <<data_chan, event_list, src_done, sent_count, count, os_pc>>
    /\ UNCHANGED <<ctlVars, feedVars, loopVars, fillVars, osVars, perfVars, extVars>>

\* the Merge publishes one more merged event on the result feed, in
\* chronological order
ResultFeedSend(s, d) ==
    /\ ~feed_done
    /\ Len(feed_socket) < MaxEvents
    /\ feed_socket # <<>> => feed_socket[Len(feed_socket)].dt <= d
    /\ feed_socket' = Append(feed_socket, Event(s, d, Len(feed_socket) + 1))
    /\ UNCHANGED <<data_buffer, draining, recv_counters, finished, feed_done,
                   iter_order, appended>>
    /\ UNCHANGED <<ctlVars, pipeVars, auxVars>>

\* the Merge publishes DONE on the result feed
ResultFeedDone ==
    /\ ~feed_done
    /\ feed_done' = TRUE
    /\ UNCHANGED <<data_buffer, draining, recv_counters, feed_socket, finished,
                   iter_order, appended>>
    /\ UNCHANGED <<ctlVars, pipeVars, auxVars>>

(***************************************************************************)
(* The transaction simulator: zipline/finance/slippage.py and the          *)
(* TransactionSimulator of zipline/finance/trading.py                      *)
(*                                                                         *)
(* Fractions are carried in hundredths (volume_limit, price_impact,        *)
(* commission) or as numerator and denominator (prices).  Python's float   *)
(* arithmetic is exact on the values used here except for the product     *)
(* (n / volume) * volume, see LosesOne.                                    *)
(***************************************************************************)
VOLUME_SHARE   == "VOLUME_SHARE"      \* VolumeShareSlippage.simulate
FIXED_SLIPPAGE == "FIXED_SLIPPAGE"    \* FixedSlippage.simulate
TRANSACTION_SIM == "TRANSACTION_SIM"  \* TransactionSimulator.apply_trade_to_open_orders
Styles == {VOLUME_SHARE, FIXED_SLIPPAGE, TRANSACTION_SIM}

volume_limit     == 25    \* VolumeShareSlippage.volume_limit = .25, in hundredths
price_impact     == 10    \* VolumeShareSlippage.price_impact = 0.1, in hundredths
commission       == 3     \* VolumeShareSlippage.commission = 0.03, in hundredths
fixed_commission == 0     \* FixedSlippage.commission = 0.0, in hundredths
orderTTL         == 24    \* TransactionSimulator.orderTTL = timedelta(days=1), in hours
trade_window     == 30    \* TransactionSimulator.trade_window = timedelta(seconds=30), in seconds

\* The datetimes of the model, in 2012, in increasing order; a dt is an
\* index into Calendar.
Calendar ==
    << [month |-> 1, day |-> 30, hour |-> 8],
       [month |-> 1, day |-> 30, hour |-> 15],
       [month |-> 1, day |-> 31, hour |-> 9],
       [month |-> 2, day |-> 1,  hour |-> 10],
       [month |-> 2, day |-> 1,  hour |-> 12],
       [month |-> 2, day |-> 2,  hour |-> 13] >>
Times == 1..MaxTime

\* datetime.day
Day(t) == Calendar[t].day
\* a datetime as hours since the start of the year: what comparing and
\* subtracting datetimes works on
Hours(t) ==
    ((IF Calendar[t].month = 1 THEN 0 ELSE 31) + Calendar[t].day - 1) * 24
        + Calendar[t].hour

Sids    == {1, 2}
Volumes == {0, 8, 49}
Prices  == {10}
Spreads == {0, 2}
Amounts == (0 - MaxAmount)..MaxAmount

Order(i, s, t, a) == [id |-> i, sid |-> s, dt |-> t, amount |-> a, filled |-> 0]
Trade(s, t, v, p) == [sid |-> s, dt |-> t, volume |-> v, price |-> p]
NoTrade == Trade(0, 0, 0, 0)

\* a price is base + num / den
Price(b, n, d) == [base |-> b, num |-> n, den |-> d]
NoTxn ==
    [made |-> FALSE, sid |-> 0, amount |-> 0, dt |-> 0,
     price |-> Price(0, 0, 1), commission |-> 0]

Abs(x) == IF x < 0 THEN 0 - x ELSE x
Sign(x) == IF x > 0 THEN 1 ELSE IF x < 0 THEN 0 - 1 ELSE 0

\* the dict without entries
NoOrders == [s \in {} |-> <<>>]

InitFillVars ==
    /\ style = VOLUME_SHARE
    /\ spread = 0
    /\ open_orders = NoOrders
    /\ order_count = 0
    /\ fill_clock = 1
    /\ orders_before = NoOrders
    /\ last_trade = NoTrade
    /\ last_txn = NoTxn
    /\ last_fills = <<>>

\* create_transaction (slippage.py) and TransactionSimulator.create_transaction
create_transaction(sid, amount, price, dt, direction, rate) ==
    [made |-> TRUE, sid |-> sid, amount |-> amount, dt |-> dt, price |-> price,
     commission |-> rate * amount * direction]

\* sorted(orders, key=lambda o: o.dt): a stable sort
RECURSIVE Insert(_, _)
Insert(sorted, o) ==
    IF sorted = <<>> THEN <<o>>
    ELSE IF Hours(sorted[Len(sorted)].dt) <= Hours(o.dt) THEN Append(sorted, o)
    ELSE Append(Insert(SubSeq(sorted, 1, Len(sorted) - 1), o), sorted[Len(sorted)])

RECURSIVE SortByDt(_)
SortByDt(orders) ==
    IF orders = <<>> THEN <<>>
    ELSE Insert(SortByDt(SubSeq(orders, 1, Len(orders) - 1)), orders[Len(orders)])

\* The float product (n / volume) * volume for 0 <= 100 * n <= volume_limit * volume
\* is n, except that for these n and volume (volume in Volumes) it is just
\* below n, so that int() gives n - 1.
LosesOne(n, volume) == <<n, volume>> \in {<<1, 49>>, <<2, 49>>, <<4, 49>>, <<8, 49>>}
RoundTrip(n, volume) == IF LosesOne(n, volume) THEN n - 1 ELSE n

\* int(volume_share * event.volume * direction) for volume_share = x / volume
\* computed in floats
FloatAmount(x, volume, direction) ==
    direction * Sign(x) * RoundTrip(Abs(x), volume)

\* the body of the loop of VolumeShareSlippage.simulate for one order
RECURSIVE VolumeShareLoop(_, _, _)
VolumeShareLoop(event, acc, i) ==
    IF i > Len(acc.orders) THEN acc
    ELSE LET order == acc.orders[i] IN
         IF ~(Hours(order.dt) < Hours(event.dt)) THEN VolumeShareLoop(event, acc, i + 1)
         ELSE IF Day(order.dt) < Day(event.dt) THEN VolumeShareLoop(event, acc, i + 1)
         ELSE
            LET open_amount == order.amount - order.filled
                direction == IF open_amount # 0 THEN Sign(open_amount) ELSE 1
                desired_order == acc.total_order + open_amount
                x == direction * desired_order
                \* direction is a float unless open_amount = 0: then the
                \* division is python 2's integer division
                isfloat == open_amount # 0
                over == IF isfloat THEN 100 * x > volume_limit * event.volume
                                   ELSE 100 * (x \div event.volume) > volume_limit
                atlimit == over \/ (isfloat /\ 100 * x = volume_limit * event.volume)
                simulated_amount ==
                    IF over THEN direction * ((volume_limit * event.volume) \div 100)
                    ELSE IF isfloat THEN FloatAmount(x, event.volume, direction)
                    ELSE (x \div event.volume) * event.volume * direction
                simulated_impact ==
                    IF over
                       THEN Price(event.price,
                                  volume_limit * volume_limit * price_impact * direction * event.price,
                                  100 * 100 * 100)
                    ELSE IF isfloat
                       THEN Price(event.price,
                                  x * x * price_impact * direction * event.price,
                                  event.volume * event.volume * 100)
                    ELSE Price(event.price,
                               (x \div event.volume) * (x \div event.volume)
                                   * price_impact * direction * event.price,
                               100)
                newacc ==
                    [orders |-> [acc.orders EXCEPT ![i].filled =
                                     order.filled + (simulated_amount - acc.total_order)],
                     total_order |-> simulated_amount,
                     simulated_amount |-> simulated_amount,
                     simulated_impact |-> simulated_impact,
                     direction |-> direction]
            IN  IF atlimit THEN newacc ELSE VolumeShareLoop(event, newacc, i + 1)

Outcome(oo, txn, fills) == [open_orders |-> oo, txn |-> txn, fills |-> fills]

\* VolumeShareSlippage.simulate
VolumeShareSimulate(event, oo) ==
    IF event.volume = 0 THEN Outcome(oo, NoTxn, <<>>)
    ELSE IF event.sid \notin DOMAIN oo THEN Outcome(oo, NoTxn, <<>>)
    ELSE
        LET acc == VolumeShareLoop(event,
                       [orders |-> SortByDt(oo[event.sid]),
                        total_order |-> 0,
                        simulated_amount |-> 0,
                        simulated_impact |-> Price(event.price, 0, 1),
                        direction |-> 1],
                       1)
            StillOpen(x) == Abs(x.amount - x.filled) > 0 /\ Day(x.dt) >= Day(event.dt)
        IN  Outcome([oo EXCEPT ![event.sid] = SelectSeq(acc.orders, StillOpen)],
                    IF acc.simulated_amount # 0
                       THEN create_transaction(event.sid, acc.simulated_amount,
                                acc.simulated_impact, event.dt, acc.direction, commission)
                       ELSE NoTxn,
                    acc.orders)

RECURSIVE SumAmount(_)
SumAmount(orders) ==
    IF orders = <<>> THEN 0 ELSE Head(orders).amount + SumAmount(Tail(orders))

\* FixedSlippage.simulate
FixedSimulate(event, oo, spr) ==
    IF event.sid \notin DOMAIN oo THEN Outcome(oo, NoTxn, <<>>)
    ELSE
        LET orders == SortByDt(oo[event.sid])
            amount == SumAmount(orders)
        IN  IF amount = 0 THEN Outcome(oo, NoTxn, orders)
            ELSE Outcome([oo EXCEPT ![event.sid] = <<>>],
                         create_transaction(event.sid, amount,
                             Price(event.price, spr, 2), event.dt, Sign(amount),
                             fixed_commission),
                         orders)

\* TransactionSimulator.create_dummy_txn is called for a trade of volume 0
\* and is not defined in the class: such a trade passes without a transaction
create_dummy_txn(dt) == NoTxn

\* TransactionSimulator.algo_time is read and never assigned in the class: the
\* time to live is taken relative to the trade
algo_time(event) == event.dt

\* the loop of TransactionSimulator.apply_trade_to_open_orders
RECURSIVE ApplyLoop(_, _, _, _)
ApplyLoop(event, orders, i, acc) ==
    IF i > Len(orders) THEN acc
    ELSE LET order == orders[i] IN
         IF (Hours(order.dt) - Hours(event.dt)) * 3600 < trade_window
            THEN ApplyLoop(event, orders, i + 1,
                     [acc EXCEPT !.total_order = @ + order.amount,
                                 !.dt = IF Hours(order.dt) > Hours(@) THEN order.dt ELSE @])
         ELSE IF Hours(algo_time(event)) - Hours(order.dt) < orderTTL
            THEN ApplyLoop(event, orders, i + 1,
                     [acc EXCEPT !.remaining_orders = Append(@, order)])
         ELSE ApplyLoop(event, orders, i + 1, acc)

\* TransactionSimulator.apply_trade_to_open_orders
apply_trade_to_open_orders(event, oo) ==
    IF event.volume = 0 THEN Outcome(oo, create_dummy_txn(event.dt), <<>>)
    ELSE IF event.sid \notin DOMAIN oo THEN Outcome(oo, NoTxn, <<>>)
    ELSE
        LET acc == ApplyLoop(event, oo[event.sid], 1,
                       [remaining_orders |-> <<>>, total_order |-> 0, dt |-> event.dt])
            total_order == acc.total_order
            direction == IF total_order # 0 THEN Sign(total_order) ELSE 1
            x == direction * total_order
            over == 100 * x > volume_limit * event.volume
            amount == IF over THEN direction * ((volume_limit * event.volume) \div 100)
                      ELSE FloatAmount(x, event.volume, direction)
            impact == IF over
                         THEN Price(event.price,
                                  volume_limit * volume_limit * price_impact * direction * event.price,
                                  100 * 100 * 100)
                         ELSE Price(event.price,
                                  x * x * price_impact * direction * event.price,
                                  event.volume * event.volume * 100)
        IN  Outcome([oo EXCEPT ![event.sid] = acc.remaining_orders],
                    create_transaction(event.sid, amount, impact, acc.dt, direction,
                                       commission),
                    oo[event.sid])

\* the fill path the simulator is configured with
Simulate(event, oo) ==
    IF style = VOLUME_SHARE THEN VolumeShareSimulate(event, oo)
    ELSE IF style = FIXED_SLIPPAGE THEN FixedSimulate(event, oo, spread)
    ELSE apply_trade_to_open_orders(event, oo)

\* add_open_order without its test for an amount of zero
add_open_order_mut(sid, amount, dt) ==
    /\ order_count < MaxFillOrders
    /\ dt <= fill_clock
    /\ order_count' = order_count + 1
    /\ open_orders' =
         [s \in DOMAIN open_orders \cup {sid} |->
             IF s = sid
                THEN Append(IF sid \in DOMAIN open_orders
                               THEN open_orders[sid] ELSE <<>>,
                            Order(order_count + 1, sid, dt, amount))
                ELSE open_orders[s]]
    /\ orders_before' = NoOrders
    /\ last_trade' = NoTrade
    /\ last_txn' = NoTxn
    /\ last_fills' = <<>>
    /\ UNCHANGED <<style, spread, fill_clock>>

\* TransactionSimulator.add_open_order, for an order the client created at dt
add_open_order(sid, amount, dt) ==
    /\ order_count < MaxFillOrders
    /\ dt <= fill_clock
    /\ IF amount = 0
          THEN UNCHANGED fillVars
          ELSE /\ order_count' = order_count + 1
               /\ open_orders' =
                    [s \in DOMAIN open_orders \cup {sid} |->
                        IF s = sid
                           THEN Append(IF sid \in DOMAIN open_orders
                                          THEN open_orders[sid] ELSE <<>>,
                                       Order(order_count + 1, sid, dt, amount))
                           ELSE open_orders[s]]
               /\ orders_before' = NoOrders
               /\ last_trade' = NoTrade
               /\ last_txn' = NoTxn
               /\ last_fills' = <<>>
               /\ UNCHANGED <<style, spread, fill_clock>>

\* a trade reaches the simulator
HandleTrade(event) ==
    /\ event.dt >= fill_clock
    /\ LET out == Simulate(event, open_orders)
       IN  /\ open_orders' = out.open_orders
           /\ last_txn' = out.txn
           /\ last_fills' = out.fills
    /\ orders_before' = open_orders
    /\ last_trade' = event
    /\ fill_clock' = event.dt
    /\ UNCHANGED <<style, spread, order_count>>

VolumeShareTrade(event) == style = VOLUME_SHARE /\ HandleTrade(event)
FixedTrade(event) == style = FIXED_SLIPPAGE /\ HandleTrade(event)
ApplyTrade(event) == style = TRANSACTION_SIM /\ HandleTrade(event)

(***************************************************************************)
(* The Performance Tracker: zipline/finance/performance.py                 *)
(*                                                                         *)
(* Datetimes are minutes; a date is the minute of its midnight.  Prices    *)
(* and amounts are whole numbers, so capital and values are whole too; a   *)
(* quotient of two of them is kept exactly, as the fraction num/den.       *)
(***************************************************************************)
MaxPerfEvents == 3     \* events given to process_event

trading_day  == 390    \* timedelta(hours=6, minutes=30)
calendar_day == 1440   \* timedelta(hours=24)
period_start == 1440   \* 0:00 on the first trading day
period_end   == 7199   \* 23:59 on the last trading day
capital_base == 100000
total_days   == (period_end - period_start) \div calendar_day

\* TradingEnvironment.trading_days: the dates of the benchmark returns, in
\* the order of the benchmark, which is chronological.
\* The third calendar day of the period is not a trading day.
trading_days == <<1440, 2880, 5760>>

normalize_date(test_date) == (test_date \div calendar_day) * calendar_day

TradingEnvironment(days) ==
    [trading_days |-> days, period_start |-> period_start,
     period_end |-> period_end, capital_base |-> capital_base]

is_trading_day(env, test_date) ==
    \E i \in DOMAIN env.trading_days : env.trading_days[i] = normalize_date(test_date)

\* a float that is the quotient of two whole numbers
Frac(n, d) == [num |-> n, den |-> d]
SignOf(f) == Sign(f.num) * Sign(f.den)

\* Python 2 round() of a fraction: to the nearest integer, halves away from
\* zero.  The float 1.1 lies above 11/10 by less than 1e-16 and every other
\* operand is whole, so the float result is the exact one.
round(f) ==
    LET n == Abs(f.num)
        d == Abs(f.den)
    IN  SignOf(f) * ((2 * n + d) \div (2 * d))

round_to_nearest(x, base) == base * round(Frac(x.num, x.den * base))

\* cushioned_capital = 1.1 * self.max_capital_used
cushioned_capital(max_capital_used) == Frac(11 * max_capital_used, 10)

capital_high_mut(cumulative_capital_used, max_capital_used) ==
    Abs(cumulative_capital_used)

\* max_capital_used before the cushion
capital_high(cumulative_capital_used, max_capital_used) ==
    IF Abs(cumulative_capital_used) > max_capital_used
    THEN Abs(cumulative_capital_used)
    ELSE max_capital_used

Position(sid) ==
    [sid |-> sid, amount |-> 0, cost_basis |-> Frac(0, 1),
     last_sale_price |-> None, last_sale_date |-> None]

\* cost_basis * amount: cost_basis is total_cost / total_shares of the
\* latest update, and amount is that total_shares, or 0 / 1 and any amount
prev_cost(pos) == (pos.cost_basis.num * pos.amount) \div pos.cost_basis.den

new_amount_mut(pos, txn) == txn.amount
new_amount(pos, txn) == pos.amount + txn.amount

\* Position.update raises NameError, before it touches anything, when the
\* transaction is for another sid
update_raises(pos, txn) == pos.sid # txn.sid

\* Position.update without its check of the sid
update_mut(pos, txn) ==
    IF pos.amount + txn.amount = 0
    THEN [pos EXCEPT !.cost_basis = Frac(0, 1), !.amount = 0]
    ELSE [pos EXCEPT !.cost_basis = Frac(prev_cost(pos) + txn.amount * txn.price,
                                         pos.amount + txn.amount),
                     !.amount = new_amount(pos, txn)]

\* the position Position.update leaves; update_raises tells whether it raised
update(pos, txn) ==
    IF pos.sid # txn.sid
    THEN pos
    ELSE IF pos.amount + txn.amount = 0
    THEN [pos EXCEPT !.cost_basis = Frac(0, 1), !.amount = 0]
    ELSE LET txn_cost     == txn.amount * txn.price
             total_cost   == prev_cost(pos) + txn_cost
             total_shares == pos.amount + txn.amount
         IN  [pos EXCEPT !.cost_basis = Frac(total_cost, total_shares),
                         !.amount = new_amount(pos, txn)]

currentValue(pos) == pos.amount * pos.last_sale_price

Unset == [set |-> FALSE, num |-> 0, den |-> 1]
Float(f) == [set |-> TRUE, num |-> f.num, den |-> f.den]

\* positions is a dict: a function whose domain is its keys
NoPositions == [sid \in {} |-> Position(sid)]
has_key(positions, sid) == sid \in DOMAIN positions

PerformancePeriodMut(initial_positions, starting_value, starting_cash) ==
    [ending_value |-> 0, period_capital_used |-> 0, pnl |-> 0,
     positions |-> initial_positions, starting_value |-> starting_cash,
     starting_cash |-> starting_value, ending_cash |-> starting_value,
     returns |-> Unset]

PerformancePeriod(initial_positions, starting_value, starting_cash) ==
    [ending_value |-> 0, period_capital_used |-> 0, pnl |-> 0,
     positions |-> initial_positions, starting_value |-> starting_value,
     starting_cash |-> starting_cash, ending_cash |-> starting_cash,
     returns |-> Unset]

RECURSIVE ValueOf(_, _)
ValueOf(positions, keys) ==
    IF keys = {} THEN 0
    ELSE LET key == CHOOSE k \in keys : TRUE
         IN  currentValue(positions[key]) + ValueOf(positions, keys \ {key})

calculate_positions_value(period) == ValueOf(period.positions, DOMAIN period.positions)

calculate_performance(period) ==
    LET ending_value   == calculate_positions_value(period)
        total_at_start == period.starting_cash + period.starting_value
        ending_cash    == period.starting_cash + period.period_capital_used
        total_at_end   == ending_cash + ending_value
        pnl            == total_at_end - total_at_start
    IN  [period EXCEPT !.ending_value = ending_value,
                       !.ending_cash = ending_cash,
                       !.pnl = pnl,
                       !.returns = IF total_at_start # 0
                                   THEN Float(Frac(pnl, total_at_start))
                                   ELSE Float(Frac(0, 1))]

\* the positions after line 305: a new Position under a sid not yet held
held_positions(period, txn) ==
    IF has_key(period.positions, txn.sid)
    THEN period.positions
    ELSE period.positions @@ (txn.sid :> Position(txn.sid))

\* execute_transaction lets the NameError of Position.update through
execute_raises(period, txn) ==
    update_raises(held_positions(period, txn)[txn.sid], txn)

\* the period execute_transaction leaves, with period_capital_used as it was
\* when update raised
execute_transaction(period, txn) ==
    LET held == held_positions(period, txn)
    IN  IF execute_raises(period, txn)
        THEN [period EXCEPT !.positions = held]
        ELSE [period EXCEPT
                 !.positions = [held EXCEPT ![txn.sid] = update(@, txn)],
                 !.period_capital_used = @ + (0 - 1) * txn.price * txn.amount]

update_last_sale(period, event) ==
    LET is_trade == event.type = "TRADE"
    IN  IF has_key(period.positions, event.sid) /\ is_trade
        THEN [period EXCEPT !.positions[event.sid].last_sale_price = event.price,
                            !.positions[event.sid].last_sale_date = event.dt]
        ELSE period

\* zipline.finance.risk is not part of the sources at hand: a DailyReturn
\* and a RiskMetrics are kept as what they are constructed from.
DailyReturn(date, returns) == [date |-> date, returns |-> returns]
RiskMetrics(start_date, end_date, returns) ==
    [start_date |-> start_date, end_date |-> end_date, returns |-> returns]
NoRiskMetrics == RiskMetrics(None, None, <<>>)

PerformanceTracker(trading_environment) ==
    [trading_environment |-> trading_environment,
     market_open |-> period_start,
     market_close |-> period_start + trading_day,
     progress |-> Frac(0, 1),
     day_count |-> 0,
     cumulative_capital_used |-> 0,
     max_capital_used |-> 0,
     max_leverage |-> None,
     returns |-> <<>>,
     cumulative_risk_metrics |-> NoRiskMetrics,
     txn_count |-> 0,
     event_count |-> 0,
     cumulative_performance |-> PerformancePeriod(NoPositions, capital_base, capital_base),
     todays_performance |-> PerformancePeriod(NoPositions, capital_base, capital_base),
     \* which dict object each period's positions is: the two {} of __init__
     dict_id |-> [cumulative_performance |-> 1, todays_performance |-> 2]]

Returned(t) == [perf |-> t, error |-> "none"]
Raised(t, exception) == [perf |-> t, error |-> exception]

\* lines 175-179: the next market_open, or the exception of line 178
next_open_mut(env, market_open) == [open |-> market_open, raised |-> FALSE]

RECURSIVE next_open(_, _)
next_open(env, market_open) ==
    IF is_trading_day(env, market_open) THEN [open |-> market_open, raised |-> FALSE]
    ELSE IF market_open > env.trading_days[Len(env.trading_days)]
         THEN [open |-> market_open, raised |-> TRUE]
         ELSE next_open(env, market_open + calendar_day)

\* the positions handle_market_close gives the new day's period: the dict
\* object and what it holds
rolled_positions_mut(t) ==
    [id |-> t.dict_id.cumulative_performance,
     positions |-> t.cumulative_performance.positions]
rolled_positions(t) ==
    [id |-> t.dict_id.todays_performance,
     positions |-> t.todays_performance.positions]

handle_market_close(t) ==
    LET todays_date == normalize_date(t.market_close)
    IN  IF ~t.todays_performance.returns.set
        THEN Raised(t, "AttributeError")
        ELSE LET todays_return_obj == DailyReturn(todays_date, t.todays_performance.returns)
                 returns == Append(t.returns, todays_return_obj)
                 metrics == RiskMetrics(period_start, todays_date, returns)
                 moved   == next_open(t.trading_environment, t.market_open + calendar_day)
                 t1 == [t EXCEPT !.returns = returns,
                                 !.cumulative_risk_metrics = metrics,
                                 !.market_open = moved.open]
                 today == calculate_performance(t.todays_performance)
             IN  IF moved.raised
                 THEN Raised(t1, "Exception")
                 ELSE Returned([t1 EXCEPT
                         !.market_close = moved.open + trading_day,
                         !.day_count = @ + 1,
                         !.progress = Frac(t.day_count + 1, total_days),
                         !.todays_performance =
                             PerformancePeriod(rolled_positions(t).positions,
                                               today.ending_value,
                                               today.ending_cash),
                         !.dict_id = [@ EXCEPT !.todays_performance =
                                                   rolled_positions(t).id]])

NoTransaction == [sid |-> None, amount |-> 0, price |-> None]
Transaction(sid, amount, price) == [sid |-> sid, amount |-> amount, price |-> price]

TradeEvent(dt, sid, price, txn) ==
    [type |-> "TRADE", dt |-> dt, sid |-> sid, price |-> price, TRANSACTION |-> txn]

\* lines 130-147 of process_event
\* the two periods hold one and the same dict of positions
shared_positions(t) ==
    t.dict_id.cumulative_performance = t.dict_id.todays_performance

\* lines 131-133: the two execute_transaction calls.  Periods that hold the
\* same dict see each other's update of it.
execute_both(t, txn) ==
    LET first  == execute_transaction(t.cumulative_performance, txn)
        seen   == IF shared_positions(t)
                  THEN [t.todays_performance EXCEPT !.positions = first.positions]
                  ELSE t.todays_performance
        second == execute_transaction(seen, txn)
        raised == execute_raises(t.cumulative_performance, txn)
                    \/ execute_raises(seen, txn)
    IN  [raised |-> raised,
         perf |-> IF execute_raises(t.cumulative_performance, txn)
                  THEN [t EXCEPT !.txn_count = @ + 1,
                                 !.cumulative_performance = first]
                  ELSE [t EXCEPT
                          !.txn_count = @ + 1,
                          !.cumulative_performance =
                              IF shared_positions(t)
                              THEN [first EXCEPT !.positions = second.positions]
                              ELSE first,
                          !.todays_performance = second]]

apply_transaction(t, txn) ==
    LET transaction_cost == txn.price * txn.amount
        used == t.cumulative_capital_used + transaction_cost
        high == capital_high(used, t.max_capital_used)
        max_capital_used == round_to_nearest(cushioned_capital(high), 5000)
        executed == execute_both(t, txn)
    IN  IF executed.raised
        THEN Raised(executed.perf, "NameError")
        ELSE Returned([executed.perf EXCEPT
                  !.cumulative_capital_used = used,
                  !.max_capital_used = max_capital_used,
                  !.max_leverage = max_capital_used \div capital_base])

\* process_event as a function of the tracker: the tracker it leaves, the
\* exception it raised, and the tracker before and after the rollover
process_event(t, event) ==
    LET counted == [t EXCEPT !.event_count = @ + 1]
        rolls   == event.dt >= counted.market_close
        closed  == IF rolls THEN handle_market_close(counted) ELSE Returned(counted)
        opened  == closed.perf
        traded  == IF event.TRANSACTION # NoTransaction
                   THEN apply_transaction(opened, event.TRANSACTION)
                   ELSE Returned(opened)
        final   == [traded.perf EXCEPT
                      !.cumulative_performance =
                          calculate_performance(update_last_sale(@, event)),
                      !.todays_performance =
                          calculate_performance(update_last_sale(@, event))]
    IN  [perf |-> IF closed.error # "none" THEN opened
                  ELSE IF traded.error # "none" THEN traded.perf
                  ELSE final,
         error |-> IF closed.error # "none" THEN closed.error ELSE traded.error,
         rolled |-> rolls /\ closed.error = "none",
         before |-> counted,
         after |-> opened]

\* what SpecPerf feeds the tracker: the trades of the market, as <<dt, price>>.
\* They fall at the first day's open, after its close, in the hours of the
\* second day and in the hours of the last; each comes for any sid, with or
\* without a transaction at the trade's price.
PerfTrades  == {<<1440, 1000>>, <<2040, 3000>>, <<2940, 1000>>, <<5820, 3000>>}
TxnAmounts  == {0 - 2, 0 - 1, 1, 2}
PerfEvents ==
    {TradeEvent(trade[1], sid, trade[2], NoTransaction) :
        trade \in PerfTrades, sid \in Sids} \cup
    {TradeEvent(trade[1], sid, trade[2], Transaction(sid, amount, trade[2])) :
        trade \in PerfTrades, sid \in Sids, amount \in TxnAmounts}

NoPerfEvent == TradeEvent(None, None, None, NoTransaction)
NoTracker == PerformanceTracker(TradingEnvironment(<<>>))
NoRollover == [rolled |-> FALSE, before |-> NoTracker, after |-> NoTracker]

\* the calendars SpecPerf runs on: one with a day off between two trading
\* days, one that ends after the second day
PerfCalendars == {trading_days, <<1440, 2880>>}

InitTracker(days) ==
    /\ perf = PerformanceTracker(TradingEnvironment(days))
    /\ perf_error = "none"
    /\ last_event = NoPerfEvent
    /\ last_rollover = NoRollover
    /\ txn_sums = [sid \in Sids |-> 0]
    /\ closed_sids = {}

InitPerfVars == InitTracker(trading_days)

\* one call of PerformanceTracker.process_event, as the Trading Client's
\* queue_event makes it
ProcessEvent(event) ==
    /\ perf_error = "none"
    /\ perf.event_count < MaxPerfEvents
    /\ last_event # NoPerfEvent => event.dt >= last_event.dt
    /\ LET r   == process_event(perf, event)
           txn == event.TRANSACTION
           executed == r.error = "none" /\ txn # NoTransaction
       IN  /\ perf' = r.perf
           /\ perf_error' = r.error
           /\ last_event' = event
           /\ last_rollover' = IF r.rolled
                               THEN [rolled |-> TRUE, before |-> r.before, after |-> r.after]
                               ELSE NoRollover
           /\ txn_sums' = IF executed
                          THEN [txn_sums EXCEPT ![txn.sid] = @ + txn.amount]
                          ELSE txn_sums
           /\ closed_sids' = IF executed /\ txn.amount # 0
                                /\ r.perf.cumulative_performance.positions[txn.sid].amount = 0
                             THEN closed_sids \cup {txn.sid}
                             ELSE closed_sids
    /\ UNCHANGED <<ctlVars, feedVars, pipeVars, loopVars, fillVars, osVars, clientVars, extVars>>

(***************************************************************************)
(* The wire formats: zipline/protocol.py                                   *)
(*                                                                         *)
(* A namedict is a function from its keys to their values.  msgpack is     *)
(* taken to give back what it was given: dumps(x) is a string that holds   *)
(* x, and loads returns x with its tuples as tuples, as UNPACK_DATE        *)
(* requires.                                                               *)
(***************************************************************************)
DATASOURCE_TYPE == [ORDER |-> 0, TRADE |-> 1, EMPTY |-> 2]

\* a value on the wire: a msgpack string, or a number
Packed(x) == [kind |-> "str", value |-> x]
Number(n) == [kind |-> "int", value |-> n]
dumps(x) == Packed(x)
loads(msg) == msg.value
Same(a, b) == a.kind = b.kind /\ a.value = b.value

Invalid(name) == [raised |-> name]
IsInvalid(x) == DOMAIN x = {"raised"}

UTC == "UTC"
Datetime(year, month, day, hour, minute, second, microsecond) ==
    [year |-> year, month |-> month, day |-> day, hour |-> hour,
     minute |-> minute, second |-> second, microsecond |-> microsecond,
     tzinfo |-> UTC]

PACK_DATE(event) ==
    LET dt == event.dt
    IN  [event EXCEPT !["dt"] = <<dt.year, dt.month, dt.day, dt.hour, dt.minute,
                                  dt.second, dt.microsecond>>]

UNPACK_DATE(event) ==
    LET packed == event.dt
        dt == [year |-> packed[1], month |-> packed[2], day |-> packed[3],
               hour |-> packed[4], minute |-> packed[5], second |-> packed[6],
               microsecond |-> 0, tzinfo |-> None]
    IN  [event EXCEPT !["dt"] = [dt EXCEPT !.microsecond = packed[7], !.tzinfo = UTC]]

\* namedict.merge: the other's entries win
merge(self, other_nd) == other_nd @@ self

TRADE_FRAME(event) ==
    LET packed == PACK_DATE(event)
    IN  dumps(<<packed.sid, packed.price, packed.volume, packed.dt, packed.type>>)

TRADE_UNFRAME(msg) ==
    LET packed == loads(msg)
    IN  UNPACK_DATE([sid |-> packed[1], price |-> packed[2], volume |-> packed[3],
                     dt |-> packed[4], type |-> packed[5]])

ORDER_SOURCE_FRAME(event) ==
    LET packed == PACK_DATE(event)
    IN  dumps(<<packed.sid, packed.amount, packed.dt, packed.source_id, packed.type>>)

ORDER_SOURCE_UNFRAME(msg) ==
    LET packed == loads(msg)
    IN  UNPACK_DATE([sid |-> packed[1], amount |-> packed[2], dt |-> packed[3],
                     source_id |-> packed[4], type |-> packed[5]])

DATASOURCE_FRAME(event) ==
    IF Cardinality(DOMAIN event) = 2
    THEN dumps(<<event.type, event.source_id, Number(DATASOURCE_TYPE.EMPTY)>>)
    ELSE IF event.type = DATASOURCE_TYPE.TRADE
         THEN dumps(<<event.type, event.source_id, TRADE_FRAME(event)>>)
         ELSE IF event.type = DATASOURCE_TYPE.ORDER
              THEN dumps(<<event.type, event.source_id, ORDER_SOURCE_FRAME(event)>>)
              ELSE Invalid("INVALID_DATASOURCE_FRAME")

DATASOURCE_UNFRAME(msg) ==
    LET ds_type   == loads(msg)[1]
        source_id == loads(msg)[2]
        payload   == loads(msg)[3]
        rval      == [source_id |-> source_id]
    IN  IF Same(payload, Number(DATASOURCE_TYPE.EMPTY))
        THEN merge(rval, [dt |-> None])
        ELSE IF ds_type = DATASOURCE_TYPE.TRADE
             THEN merge(rval, TRADE_UNFRAME(payload))
             ELSE IF ds_type = DATASOURCE_TYPE.ORDER
                  THEN merge(rval, ORDER_SOURCE_UNFRAME(payload))
                  ELSE Invalid("INVALID_DATASOURCE_FRAME")

TRANSACTION_FRAME(event) ==
    LET packed == PACK_DATE(event)
    IN  dumps(<<packed.sid, packed.price, packed.amount, packed.commission, packed.dt>>)

TRANSACTION_UNFRAME(msg) ==
    LET packed == loads(msg)
    IN  UNPACK_DATE([sid |-> packed[1], price |-> packed[2], amount |-> packed[3],
                     commission |-> packed[4], dt |-> packed[5]])

\* the events and transactions the components put on the wire
WireDates == {Datetime(2008, 1, 1, 0, 0, 0, 0), Datetime(2008, 1, 1, 9, 30, 0, 1),
              Datetime(2008, 12, 31, 23, 59, 59, 999999)}
WireSources == {"a", "b"}
TradeEventsOnWire ==
    {[source_id |-> s, type |-> DATASOURCE_TYPE.TRADE, sid |-> sid, price |-> price,
      volume |-> volume, dt |-> dt] :
        s \in WireSources, sid \in Sids, price \in Prices, volume \in Volumes,
        dt \in WireDates}
OrderEventsOnWire ==
    {[source_id |-> "ORDER", type |-> DATASOURCE_TYPE.ORDER, sid |-> sid,
      amount |-> amount, dt |-> dt] :
        sid \in Sids, amount \in Amounts, dt \in WireDates}
EmptyEventsOnWire ==
    {[source_id |-> s, type |-> type] :
        s \in WireSources \cup {"ORDER"},
        type \in {DATASOURCE_TYPE.TRADE, DATASOURCE_TYPE.ORDER}}
TransactionsOnWire ==
    {[sid |-> sid, amount |-> amount, dt |-> dt, price |-> price,
      commission |-> commission * amount * Sign(amount),
      source_id |-> "TRANSACTION_SIM"] :
        sid \in Sids, amount \in Amounts \ {0}, dt \in WireDates, price \in Prices}

NoWire == [none |-> TRUE]

InitWireVars ==
    /\ wire_in = NoWire
    /\ wire_msg = NoWire
    /\ wire_out = NoWire

\* a data source frames an event and the Feed unframes it
DatasourceRoundTrip(event) ==
    /\ wire_in' = event
    /\ wire_msg' = DATASOURCE_FRAME(event)
    /\ wire_out' = DATASOURCE_UNFRAME(wire_msg')
    /\ UNCHANGED <<ctlVars, feedVars, pipeVars, loopVars, fillVars, osVars, clientVars, perfVars, acctVars, simVars, retVars>>

\* a transaction is framed and unframed
TransactionRoundTrip(txn) ==
    /\ wire_in' = txn
    /\ wire_msg' = TRANSACTION_FRAME(txn)
    /\ wire_out' = TRANSACTION_UNFRAME(wire_msg')
    /\ UNCHANGED <<ctlVars, feedVars, pipeVars, loopVars, fillVars, osVars, clientVars, perfVars, acctVars, simVars, retVars>>

(***************************************************************************)
(* A Position and a PerformancePeriod called directly                      *)
(* (finance/performance.py): Position.update with any transaction, of the  *)
(* position's sid or of another, and PerformancePeriod.execute_transaction.*)
(***************************************************************************)
MaxCalls == 3

AcctTransactions ==
    {Transaction(sid, amount, price) :
        sid \in Sids, amount \in TxnAmounts, price \in {1000, 3000}}

InitAcctVars ==
    /\ acct_position = Position(CHOOSE sid \in Sids : TRUE)
    /\ acct_period = PerformancePeriod(NoPositions, capital_base, capital_base)
    /\ acct_call = [n |-> 0, call |-> "none", txn |-> NoTransaction,
                    error |-> "none", before |-> acct_position]

\* position.update(txn)
PositionUpdate(txn) ==
    /\ acct_call.n < MaxCalls
    /\ acct_position' = update(acct_position, txn)
    /\ acct_call' = [n |-> acct_call.n + 1, call |-> "update", txn |-> txn,
                     error |-> IF update_raises(acct_position, txn)
                               THEN "NameError" ELSE "none",
                     before |-> acct_position]
    /\ UNCHANGED <<acct_period, ctlVars, feedVars, pipeVars, loopVars, fillVars,
                   osVars, clientVars, perfVars, wireVars, simVars, retVars>>

\* period.execute_transaction(txn)
PeriodExecute(txn) ==
    /\ acct_call.n < MaxCalls
    /\ acct_period' = execute_transaction(acct_period, txn)
    /\ acct_call' = [n |-> acct_call.n + 1, call |-> "execute_transaction",
                     txn |-> txn,
                     error |-> IF execute_raises(acct_period, txn)
                               THEN "NameError" ELSE "none",
                     before |-> acct_position]
    /\ UNCHANGED <<acct_position, ctlVars, feedVars, pipeVars, loopVars, fillVars,
                   osVars, clientVars, perfVars, wireVars, simVars, retVars>>

(***************************************************************************)
(* The transaction simulator as a transform: BaseTransform.do_work         *)
(* (transforms/base.py), TransactionSimulator.transform                    *)
(* (finance/trading.py) and TRANSFORM_FRAME (protocol.py).  A message on   *)
(* feed_socket is given as the event FEED_UNFRAME makes of it.             *)
(***************************************************************************)
MaxFeed == 3    \* feed messages the transform receives

TRANSFORM_TYPE == [TRANSACTION |-> "TRANSACTION", PASSTHROUGH |-> "PASSTHROUGH",
                   EMPTY |-> ""]

\* the events the Feed forwards: the orders of the Order Source and the
\* trades of the trade sources
OrderEvent(sid, amount, dt) ==
    [type |-> DATASOURCE_TYPE.ORDER, sid |-> sid, amount |-> amount, dt |-> dt,
     volume |-> 0, price |-> 0]
FeedTrade(trade) ==
    [type |-> DATASOURCE_TYPE.TRADE, sid |-> trade.sid, amount |-> 0,
     dt |-> trade.dt, volume |-> trade.volume, price |-> trade.price]
TradeOf(event) == Trade(event.sid, event.dt, event.volume, event.price)

FeedOrders == {OrderEvent(sid, amount, dt) :
                  sid \in Sids, amount \in {0 - 1, 0, 2}, dt \in Times}
FeedTrades == {FeedTrade(Trade(sid, dt, volume, price)) :
                  sid \in Sids, dt \in Times, volume \in {0, 8}, price \in Prices}

\* BaseTransform.state after __init__(TRANSFORM_TYPE.TRANSACTION)
InitSimVars ==
    /\ sim_state = [name |-> TRANSFORM_TYPE.TRANSACTION, value |-> NoTxn]
    /\ feed_recv = <<>>
    /\ result_socket = <<>>
    /\ pushed_for = <<>>
    /\ sim_done = FALSE

\* a transaction as TRANSACTION_FRAME takes it: dt is a datetime
AsNamedict(txn) ==
    [sid |-> txn.sid, price |-> txn.price, amount |-> txn.amount,
     commission |-> txn.commission,
     dt |-> Datetime(2012, Calendar[txn.dt].month, Calendar[txn.dt].day,
                     Calendar[txn.dt].hour, 0, 0, 0)]

\* TRANSFORM_TYPE.EMPTY, the string without characters, among the packed
\* strings
EMPTY == Packed(<<>>)

\* TRANSFORM_FRAME; the value None is NoTxn
TRANSFORM_FRAME(name, value) ==
    IF value = NoTxn
    THEN dumps(<<name, EMPTY>>)
    ELSE IF name = TRANSFORM_TYPE.TRANSACTION
    THEN dumps(<<name, TRANSACTION_FRAME(AsNamedict(value))>>)
    ELSE dumps(<<name, value>>)

\* TransactionSimulator.transform
transform(event) ==
    IF event.type = DATASOURCE_TYPE.ORDER
    THEN /\ add_open_order(event.sid, event.amount, event.dt)
         /\ sim_state' = [sim_state EXCEPT !.value = NoTxn]
    ELSE IF event.type = DATASOURCE_TYPE.TRADE
    THEN /\ ApplyTrade(TradeOf(event))
         /\ sim_state' = [sim_state EXCEPT !.value = last_txn']
    ELSE /\ UNCHANGED fillVars
         /\ sim_state' = [sim_state EXCEPT !.value = NoTxn]

\* result_socket.send(transform_frame, NOBLOCK)
send_mut(socket, frame) ==
    IF loads(frame)[2] = EMPTY THEN socket ELSE Append(socket, frame)
send(socket, frame) == Append(socket, frame)

\* BaseTransform.do_work with an event on feed_socket
TransformWork(event) ==
    /\ ~sim_done
    /\ Len(feed_recv) < MaxFeed
    /\ transform(event)
    /\ feed_recv' = Append(feed_recv, event)
    /\ result_socket' = send(result_socket,
                             TRANSFORM_FRAME(sim_state'.name, sim_state'.value))
    /\ pushed_for' = IF result_socket' = result_socket THEN pushed_for
                     ELSE Append(pushed_for, Len(feed_recv'))
    /\ UNCHANGED <<sim_done, ctlVars, feedVars, pipeVars, loopVars, osVars,
                   clientVars, perfVars, wireVars, acctVars, retVars>>

\* BaseTransform.do_work with the Feed's DONE on feed_socket
TransformDone ==
    /\ ~sim_done
    /\ sim_done' = TRUE
    /\ UNCHANGED <<sim_state, feed_recv, result_socket, pushed_for, fillVars,
                   ctlVars, feedVars, pipeVars, loopVars, osVars, clientVars,
                   perfVars, wireVars, acctVars, retVars>>

(***************************************************************************)
(* Returns from a prior close: ReturnsFromPriorClose of gens/returns.py.   *)
(* A datetime is a date and a time of day; prices are floats, carried as   *)
(* integers, and a return is an exact fraction.                            *)
(***************************************************************************)
MaxUpdates == 5     \* events given to update()

Dt(date, time) == [date |-> date, time |-> time]
PriceEvent(dt, price) == [dt |-> dt, price |-> price]
\* last_event before the first update: None
NoPriceEvent == PriceEvent(Dt(0, 0), 0)

PriceEvents ==
    {PriceEvent(Dt(date, time), price) :
        date \in 1..4, time \in {570, 960}, price \in {10, 12}}

\* the trackers of the model: days = 1 and days = 2
TrackedDays == {1, 2}

\* ReturnsFromPriorClose.__init__
ReturnsFromPriorClose(days) ==
    [closes |-> <<>>, last_event |-> NoPriceEvent, returns |-> Unset, days |-> days]

get_returns(self) == self.returns

\* while len(self.closes) > self.days: self.closes.popleft()
RECURSIVE popleft(_, _)
popleft(closes, days) ==
    IF Len(closes) > days THEN popleft(Tail(closes), days) ELSE closes

\* the close the return is taken from
last_close_mut(closes) == closes[Len(closes)].price
last_close(closes) == closes[1].price

\* ReturnsFromPriorClose.update
returns_update(self, event) ==
    LET day_changed == /\ self.last_event # NoPriceEvent
                       /\ self.last_event.dt.date # event.dt.date
        closes == IF day_changed
                  THEN popleft(Append(self.closes, self.last_event), self.days)
                  ELSE self.closes
    IN  [self EXCEPT
            !.closes = closes,
            !.returns = IF Len(closes) = self.days
                        THEN Float(Frac(event.price - last_close(closes),
                                        last_close(closes)))
                        ELSE @,
            !.last_event = event]

InitTracked(days) ==
    /\ returns_tracker = ReturnsFromPriorClose(days)
    /\ returns_fed = <<>>

InitRetVars == InitTracked(1)

\* datetimes in non-decreasing order
NotEarlier(a, b) == a.date > b.date \/ (a.date = b.date /\ a.time >= b.time)

\* tracker.update(event), for the events of one sid in the order of the Feed
ReturnsUpdate(event) ==
    /\ Len(returns_fed) < MaxUpdates
    /\ returns_fed # <<>> => NotEarlier(event.dt, returns_fed[Len(returns_fed)].dt)
    /\ returns_tracker' = returns_update(returns_tracker, event)
    /\ returns_fed' = Append(returns_fed, event)
    /\ UNCHANGED <<ctlVars, feedVars, pipeVars, loopVars, fillVars, osVars,
                   clientVars, perfVars, wireVars, acctVars, simVars>>

InitExtVars ==
    /\ InitWireVars
    /\ InitAcctVars
    /\ InitSimVars
    /\ InitRetVars

(***************************************************************************)
(* Specifications                                                          *)
(***************************************************************************)
InitCtl ==
    /\ InitCtlVars
    /\ InitFeedVars
    /\ iter_order = [i \in 1..NumSources |-> i]
    /\ InitPipeVars
    /\ event_list = [s \in Sources |-> <<>>]
    /\ InitLoopVars
    /\ InitFillVars
    /\ InitPerfVars
    /\ InitExtVars

NextCtl ==
    \/ \E free \in BOOLEAN, topo \in SUBSET Components :
          Manage(free, topo) /\ UNCHANGED <<feedVars, pipeVars, auxVars>>
    \/ Heartbeat /\ UNCHANGED <<feedVars, pipeVars, auxVars>>
    \/ \E identity \in Components, id \in {OK, DONE, EXCEPTION}, status \in {ctime - 1, ctime} :
          handle_recv(identity, id, status) /\ UNCHANGED <<feedVars, pipeVars, auxVars>>
    \/ beat /\ UNCHANGED <<feedVars, pipeVars, auxVars>>
    \/ \E hard, soft \in BOOLEAN :
          shutdown(hard, soft) /\ UNCHANGED <<feedVars, pipeVars, auxVars>>

SpecCtl == InitCtl /\ [][NextCtl]_vars

\* _poll runs in one thread that nothing suspends: the step it stands at, the
\* head of an iteration or beat(), is taken in the end.  Replies of components
\* and calls of shutdown() come from outside and may never come.
PollStep == (Heartbeat \/ beat) /\ UNCHANGED <<feedVars, pipeVars, auxVars>>

SpecCtlLive == InitCtl /\ [][NextCtl]_vars /\ WF_vars(PollStep)

InitFeed ==
    /\ InitCtlVars
    /\ InitFeedVars
    /\ iter_order \in Perms
    /\ InitPipeVars
    /\ event_list = [s \in Sources |-> <<>>]
    /\ InitLoopVars
    /\ InitFillVars
    /\ InitPerfVars
    /\ InitExtVars

NextFeed ==
    \/ \E s \in Sources, d \in {None} \cup Dts : FeedAppend(s, d)
    \/ \E s \in Sources : FeedSourceDone(s)
    \/ FeedSendNext
    \/ FeedDrain

SpecFeed == InitFeed /\ [][NextFeed]_vars

InitPipe ==
    /\ InitCtlVars
    /\ InitFeedVars
    /\ iter_order \in Perms
    /\ InitPipeVars
    /\ event_list \in InitialEventLists
    /\ InitLoopVars
    /\ InitFillVars
    /\ InitPerfVars
    /\ InitExtVars

NextPipe ==
    \/ \E s \in Sources : TradeWork(s)
    \/ \E s \in Sources : FeedWork(s)
    \/ FeedSendNext
    \/ ClientWork
    \/ OrderTop
    \/ OrderSelect

SpecPipe == InitPipe /\ [][NextPipe]_vars


InitLoop ==
    /\ InitCtlVars
    /\ InitFeedVars
    /\ iter_order = [i \in 1..NumSources |-> i]
    /\ InitPipeVars
    /\ event_list = [s \in Sources |-> <<>>]
    /\ loop_pc = "loop"
    /\ comp_done = FALSE
    /\ work_left \in 0..MaxWork
    /\ call_log = <<>>
    /\ InitFillVars
    /\ InitPerfVars
    /\ InitExtVars

NextCompLoop ==
    \/ \E wait \in AckDelays : confirm(wait) /\ UNCHANGED <<ctlVars, feedVars, pipeVars, fillVars, osVars, clientVars, perfVars, extVars>>
    \/ \E wait \in AckDelays : do_work(wait) /\ UNCHANGED <<ctlVars, feedVars, pipeVars, fillVars, osVars, clientVars, perfVars, extVars>>
    \/ LoopExit /\ UNCHANGED <<ctlVars, feedVars, pipeVars, fillVars, osVars, clientVars, perfVars, extVars>>

SpecLoop == InitLoop /\ [][NextCompLoop]_vars

InitFill ==
    /\ InitCtlVars
    /\ InitFeedVars
    /\ iter_order = [i \in 1..NumSources |-> i]
    /\ InitPipeVars
    /\ event_list = [s \in Sources |-> <<>>]
    /\ InitLoopVars
    /\ style \in Styles
    /\ spread \in (IF style = FIXED_SLIPPAGE THEN Spreads ELSE {0})
    /\ open_orders = NoOrders
    /\ order_count = 0
    /\ fill_clock = 1
    /\ orders_before = NoOrders
    /\ last_trade = NoTrade
    /\ last_txn = NoTxn
    /\ last_fills = <<>>
    /\ InitPerfVars
    /\ InitExtVars

TradeEvents == {Trade(s, t, v, p) : s \in Sids, t \in Times, v \in Volumes, p \in Prices}

NextFill ==
    \/ \E sid \in Sids, amount \in Amounts, dt \in Times :
          add_open_order(sid, amount, dt) /\ UNCHANGED <<ctlVars, feedVars, pipeVars, loopVars, osVars, clientVars, perfVars, extVars>>
    \/ \E event \in TradeEvents :
          VolumeShareTrade(event) /\ UNCHANGED <<ctlVars, feedVars, pipeVars, loopVars, osVars, clientVars, perfVars, extVars>>
    \/ \E event \in TradeEvents :
          FixedTrade(event) /\ UNCHANGED <<ctlVars, feedVars, pipeVars, loopVars, osVars, clientVars, perfVars, extVars>>
    \/ \E event \in TradeEvents :
          ApplyTrade(event) /\ UNCHANGED <<ctlVars, feedVars, pipeVars, loopVars, osVars, clientVars, perfVars, extVars>>

SpecFill == InitFill /\ [][NextFill]_vars

InitClient ==
    /\ InitCtlVars
    /\ InitFeedVars
    /\ iter_order = [i \in 1..NumSources |-> i]
    /\ InitPipeVars
    /\ event_list = [s \in Sources |-> <<>>]
    /\ InitLoopVars
    /\ InitFillVars
    /\ InitPerfVars
    /\ InitExtVars

NextClient ==
    \/ \E s \in Sources, d \in Dts : ResultFeedSend(s, d)
    \/ ResultFeedDone
    \/ ClientWork

SpecClient == InitClient /\ [][NextClient]_vars

InitPerf ==
    /\ InitCtlVars
    /\ InitFeedVars
    /\ iter_order = [i \in 1..NumSources |-> i]
    /\ InitPipeVars
    /\ event_list = [s \in Sources |-> <<>>]
    /\ InitLoopVars
    /\ InitFillVars
    /\ \E days \in PerfCalendars : InitTracker(days)
    /\ InitExtVars

NextPerf == \E event \in PerfEvents : ProcessEvent(event)

SpecPerf == InitPerf /\ [][NextPerf]_vars

InitWire ==
    /\ InitCtlVars
    /\ InitFeedVars
    /\ iter_order = [i \in 1..NumSources |-> i]
    /\ InitPipeVars
    /\ event_list = [s \in Sources |-> <<>>]
    /\ InitLoopVars
    /\ InitFillVars
    /\ InitPerfVars
    /\ InitExtVars

NextWire ==
    \/ \E event \in TradeEventsOnWire \cup OrderEventsOnWire \cup EmptyEventsOnWire :
          DatasourceRoundTrip(event)
    \/ \E txn \in TransactionsOnWire : TransactionRoundTrip(txn)

SpecWire == InitWire /\ [][NextWire]_vars

InitAcct ==
    /\ InitCtlVars
    /\ InitFeedVars
    /\ iter_order = [i \in 1..NumSources |-> i]
    /\ InitPipeVars
    /\ event_list = [s \in Sources |-> <<>>]
    /\ InitLoopVars
    /\ InitFillVars
    /\ InitPerfVars
    /\ InitExtVars

NextAcct ==
    \/ \E txn \in AcctTransactions : PositionUpdate(txn)
    \/ \E txn \in AcctTransactions : PeriodExecute(txn)

SpecAcct == InitAcct /\ [][NextAcct]_vars

InitSim ==
    /\ InitCtlVars
    /\ InitFeedVars
    /\ iter_order = [i \in 1..NumSources |-> i]
    /\ InitPipeVars
    /\ event_list = [s \in Sources |-> <<>>]
    /\ InitLoopVars
    /\ style = TRANSACTION_SIM
    /\ spread = 0
    /\ open_orders = NoOrders
    /\ order_count = 0
    /\ fill_clock = 1
    /\ orders_before = NoOrders
    /\ last_trade = NoTrade
    /\ last_txn = NoTxn
    /\ last_fills = <<>>
    /\ InitPerfVars
    /\ InitExtVars

NextSim ==
    \/ \E event \in FeedOrders : TransformWork(event)
    \/ \E event \in FeedTrades : TransformWork(event)
    \/ TransformDone

SpecSim == InitSim /\ [][NextSim]_vars

InitReturns ==
    /\ InitCtlVars
    /\ InitFeedVars
    /\ iter_order = [i \in 1..NumSources |-> i]
    /\ InitPipeVars
    /\ event_list = [s \in Sources |-> <<>>]
    /\ InitLoopVars
    /\ InitFillVars
    /\ InitPerfVars
    /\ InitWireVars
    /\ InitAcctVars
    /\ InitSimVars
    /\ \E days \in TrackedDays : InitTracked(days)

NextReturns == \E event \in PriceEvents : ReturnsUpdate(event)

SpecReturns == InitReturns /\ [][NextReturns]_vars


(***************************************************************************)
(* Properties of the Feed (SpecFeed)                                       *)
(***************************************************************************)
Emitted == {feed_socket[i] : i \in 1..Len(feed_socket)}

\* C1: every two consecutively emitted Feed events satisfy dt_n <= dt_{n+1},
\* whatever the interleaving of append(), send_next() and drain(), fillers
\* included.
C1_FeedChronological ==
    \A i \in 1..(Len(feed_socket) - 1) : feed_socket[i].dt <= feed_socket[i + 1].dt

\* the sources whose buffer head is a non-filler event, and those among them
\* whose head carries the smallest dt
Heads(buf) == {s \in Sources : buf[s] # <<>> /\ Head(buf[s]).dt # None}
SmallestHeads(buf) ==
    {s \in Heads(buf) : \A t \in Heads(buf) : Head(buf[s]).dt <= Head(buf[t]).dt}
MinOf(S) == CHOOSE x \in S : \A y \in S : x <= y

\* C2: when several buffer heads carry the same smallest dt, the event
\* emitted is the one of the lexicographically smallest source_id, whatever
\* the iteration order of the buffer map.
C2_TieBreakBySourceId ==
    [][(Len(feed_socket') = Len(feed_socket) + 1 /\ SmallestHeads(data_buffer) # {})
          => feed_socket'[Len(feed_socket')].source_id = MinOf(SmallestHeads(data_buffer))]_vars

\* C3: while the Feed is not draining and some source that has not signalled
\* DONE has an empty buffer, no step emits an event.
C3_LateSourceBlocksFeed ==
    [][(~draining /\ \E s \in Sources \ finished : data_buffer[s] = <<>>)
          => feed_socket' = feed_socket]_vars

C3_Witness ==
    /\ ~draining
    /\ feed_socket # <<>>
    /\ \E s \in Sources \ finished : data_buffer[s] = <<>>
    /\ Heads(data_buffer) # {}

\* C4: once every source has signalled DONE and drain() has returned, the
\* emitted events are the non-filler events appended, each exactly once, no
\* filler among them, and the Feed buffers nothing.
C4_DrainComplete ==
    draining =>
        /\ finished = Sources
        /\ pending_messages(data_buffer) = 0
        /\ Emitted = appended
        /\ Cardinality(Emitted) = Len(feed_socket)
        /\ \A i \in 1..Len(feed_socket) : feed_socket[i].dt # None

C4_Witness ==
    /\ draining
    /\ Len(feed_socket) >= 2
    /\ SeqSum([i \in 1..NumSources |-> recv_counters[i]]) > Len(feed_socket)

(***************************************************************************)
(* Properties of the order loop (SpecPipe)                                 *)
(***************************************************************************)
FeedWaitsForOrderSource ==
    /\ ~feed_done
    /\ OrderSource \notin finished
    /\ data_chan[OrderSource] = <<>>
    /\ data_buffer[OrderSource] = <<>>
OrderSourceWaitsForClient == os_pc = "select" /\ order_socket = <<>>
ClientWaitsForFeed == ~client_done /\ ~feed_done /\ client_read = Len(feed_socket)
TradeSourcesDone == \A s \in TradeSources : s \in src_done /\ data_chan[s] = <<>>

\* C5: once the trade sources have signalled DONE the pipeline completes; no
\* reachable state has the Feed waiting for the Order Source, the Order
\* Source waiting for the Trading Client and the client waiting for the Feed.
C5_NoOrderLoopDeadlock ==
    ~(TradeSourcesDone /\ FeedWaitsForOrderSource /\ OrderSourceWaitsForClient
        /\ ClientWaitsForFeed)

(***************************************************************************)
(* Properties of the Controller (SpecCtl)                                  *)
(***************************************************************************)
BeatPost ==
    /\ \A c \in tracked \ responses : c \notin tracked' /\ c \in timed_out'
    /\ (tracked \cap responses) \subseteq tracked'

\* C6 as stated: in every heartbeat period beat() removes each tracked
\* component that did not reply OK with the current ctime and keeps every
\* tracked component that did.
C6_BeatRemovesSilent == [][beat => BeatPost]_vars

\* C6 as amended: every beat() that returns (does not raise UnknownChatter)
\* removes each tracked component that did not reply OK with the current
\* ctime in the period, reports it timed out, and keeps every tracked
\* component that did reply; one missed heartbeat is enough.
C6_BeatThatReturns == [][(beat /\ ctl_pc' = "beat") => BeatPost]_vars

C6_Witness ==
    /\ ctl_pc = "beat"
    /\ timed_out # {}
    /\ tracked \cap responses # {}

\* C7: unless the topology is freeform, tracked is a subset of the topology
\* in every state and a beat() that finds a reply from outside the topology
\* fails with UnknownChatter; under a freeform topology every identity that
\* replied is tracked after beat().
C7_TopologyGate ==
    /\ [](~freeform => tracked \subseteq topology)
    /\ [][beat => /\ (~freeform /\ ~(responses \subseteq topology))
                        => ctl_error' = "UnknownChatter"
                  /\ freeform => responses \subseteq tracked']_vars

C7_Witness ==
    /\ ~freeform
    /\ ctl_error = "UnknownChatter"
    /\ tracked # {}

\* C8: after the Controller handles DONE from a tracked component, the
\* component is no longer tracked and no error is raised.
C8_DoneRemovesSilently ==
    [][\A c \in tracked : c \in done_handled' \ done_handled
          => c \notin tracked' /\ ctl_error' = "none"]_vars

\* C9: once a failure is reported (an EXCEPTION message, or a tracked
\* component timing out) the Controller has left RUNNING and stopped polling.
C9_FailureLeavesRunning ==
    (exc_reported # {} \/ timed_out # {})
        => state \in {SHUTDOWN, TERMINATE} /\ ~polling

StateRank(st) == CHOOSE i \in 1..Len(default_states) : default_states[i] = st

\* C10: the state is RUNNING after manage() and only moves forward along
\* RUNNING -> SHUTDOWN -> TERMINATE.
C10_StateOnlyForward ==
    [][/\ ctl_pc = "new" /\ ctl_pc' = "managed" => state' = RUNNING
       /\ state # "unset" => StateRank(state') >= StateRank(state)]_vars

(***************************************************************************)
(* Properties of the run loop (SpecLoop)                                   *)
(***************************************************************************)
Calls == 1..Len(call_log)
TimedOut(i) == call_log[i].op \in {"confirm", "signal_done"}
               /\ call_log[i].wait >= heartbeat_timeout

\* C11: every do_work() follows directly on a confirm() whose acknowledgement
\* came within heartbeat_timeout; a request whose acknowledgement times out
\* raises, and nothing is called after it; once a signal_done() has completed
\* neither confirm() nor do_work() is called again.
C11_LoopDiscipline ==
    /\ \A i \in Calls :
          call_log[i].op = "do_work" =>
              /\ i > 1
              /\ call_log[i - 1].op = "confirm"
              /\ call_log[i - 1].wait < heartbeat_timeout
    /\ \A i \in Calls : TimedOut(i) => i = Len(call_log) /\ loop_pc = "raised"
    /\ \A i, j \in Calls :
          (i < j /\ call_log[i].op = "signal_done" /\ ~TimedOut(i)) =>
              call_log[j].op \notin {"confirm", "do_work"}
    /\ loop_pc = "exited" =>
          call_log # <<>> /\ call_log[Len(call_log)].op = "signal_done"

\* the loop has ended after two events were sent
C11_Witness ==
    /\ loop_pc = "exited"
    /\ Cardinality({i \in Calls : call_log[i].op = "do_work"}) = 3
    /\ Cardinality({i \in Calls : call_log[i].op = "confirm"}) = 3

(***************************************************************************)
(* Properties of the transaction simulator (SpecFill)                      *)
(***************************************************************************)
TradeHandled == last_trade # NoTrade
OrdersOfSid(oo, sid) == IF sid \in DOMAIN oo THEN oo[sid] ELSE <<>>
\* the orders the latest trade found for its sid
Found == OrdersOfSid(orders_before, last_trade.sid)
\* the orders the latest trade left open for its sid
Left == OrdersOfSid(open_orders, last_trade.sid)

\* hours from the creation of an order to a trade
Lapse(o, e) == Hours(e.dt) - Hours(o.dt)
\* created strictly before the trade and within the time to live
Eligible(o, e) == Lapse(o, e) > 0 /\ Lapse(o, e) <= orderTTL

RECURSIVE OpenAmount(_, _)
OpenAmount(orders, e) ==
    IF orders = <<>> THEN 0
    ELSE (IF Eligible(Head(orders), e) THEN Head(orders).amount - Head(orders).filled ELSE 0)
         + OpenAmount(Tail(orders), e)

\* floor(volume_limit * volume)
LimitShares(volume) == (volume_limit * volume) \div 100
\* floor(min(n / volume, volume_limit) * volume) for an integer n >= 0
FloorShare(n, volume) ==
    IF 100 * n <= volume_limit * volume THEN n ELSE LimitShares(volume)

\* C12: for a trade with volume > 0 the volume-share model emits a
\* transaction of amount sign(open_amount) * floor(min(|open_amount| / volume,
\* volume_limit) * volume), open_amount being the net open quantity of the
\* eligible orders, emits none when that value is 0, and never more than
\* floor(volume_limit * volume) shares.
C12_VolumeShareAmount ==
    (style = VOLUME_SHARE /\ TradeHandled /\ last_trade.volume > 0 /\ Found # <<>>) =>
        LET open_amount == OpenAmount(Found, last_trade)
            expected == Sign(open_amount) * FloorShare(Abs(open_amount), last_trade.volume)
        IN  /\ expected = 0 => ~last_txn.made
            /\ expected # 0 => last_txn.made /\ last_txn.amount = expected
            /\ Abs(last_txn.amount) <= LimitShares(last_trade.volume)

Range(q) == {q[i] : i \in 1..Len(q)}
Ids(q) == {q[i].id : i \in 1..Len(q)}
\* an order of the latest trade's sid as the trade found it
BeforeOf(id) == CHOOSE o \in Range(Found) : o.id = id
\* an order of the latest trade's sid after the fill loop
AfterOf(id) == CHOOSE o \in Range(last_fills) : o.id = id

\* the open orders without those of the trade's sid that satisfy Drop
Without(oo, e, Drop(_)) ==
    LET Keep(o) == ~Drop(o)
    IN  [s \in DOMAIN oo |-> IF s = e.sid THEN SelectSeq(oo[s], Keep) ELSE oo[s]]

\* C13: on every fill path an order created at or after the trade's dt is not
\* filled by that trade: it stays in the open orders with its filled
\* unchanged, and the transaction is the one the trade gives without it.
C13_NoFillAtOrAfterTradeTime ==
    TradeHandled =>
        LET NotBefore(o) == Hours(o.dt) >= Hours(last_trade.dt)
        IN  /\ \A o \in Range(Found) : NotBefore(o) => o \in Range(Left)
            /\ Simulate(last_trade, Without(orders_before, last_trade, NotBefore)).txn.amount
                   = last_txn.amount

\* C14: for a trade with volume on the order's sid, an order created strictly
\* before the trade and at most 1 day earlier is retained while it is partly
\* open; an order created more than 1 day earlier is removed and gets no fill.
C14_OrderTimeToLive ==
    (TradeHandled /\ style \in {VOLUME_SHARE, TRANSACTION_SIM} /\ last_trade.volume > 0) =>
        LET Expired(o) == Lapse(o, last_trade) > orderTTL
        IN  /\ \A o \in Range(Found) :
                  /\ (Eligible(o, last_trade) /\ AfterOf(o.id).amount # AfterOf(o.id).filled)
                        => o.id \in Ids(Left)
                  /\ Expired(o) => AfterOf(o.id).filled = o.filled /\ o.id \notin Ids(Left)
            /\ Simulate(last_trade, Without(orders_before, last_trade, Expired)).txn.amount
                   = last_txn.amount

\* the orders whose filled the latest volume-share trade changed
Fillers == {o.id : o \in {x \in Range(Found) : AfterOf(x.id).filled # x.filled}}

\* C15: every open order has |filled| <= |amount| and a filled that is zero or
\* of the sign of amount; a transaction filled by a single order has the sign
\* of that order's open quantity and at most its magnitude.
C15_FillWithinOrder ==
    /\ \A s \in DOMAIN open_orders : \A o \in Range(open_orders[s]) :
          /\ Abs(o.filled) <= Abs(o.amount)
          /\ o.filled = 0 \/ Sign(o.filled) = Sign(o.amount)
    /\ (TradeHandled /\ style = VOLUME_SHARE /\ last_txn.made /\ Cardinality(Fillers) = 1) =>
          \A id \in Fillers :
              LET open_quantity == BeforeOf(id).amount - BeforeOf(id).filled
              IN  /\ Sign(last_txn.amount) = Sign(open_quantity)
                  /\ Abs(last_txn.amount) <= Abs(open_quantity)

\* C16: a volume-share fill goes to the eligible orders in creation order: if
\* an eligible order is left with open quantity, no eligible order after it got
\* any fill from the trade; an order whose filled equals its amount is no
\* longer in the open orders.
C16_FifoAllocation ==
    (TradeHandled /\ style = VOLUME_SHARE /\ last_trade.volume > 0) =>
        /\ \A i, j \in 1..Len(last_fills) :
              (/\ i < j
               /\ Eligible(last_fills[i], last_trade)
               /\ Eligible(last_fills[j], last_trade)
               /\ last_fills[i].amount # last_fills[i].filled)
                  => last_fills[j].filled = BeforeOf(last_fills[j].id).filled
        /\ \A o \in Range(last_fills) : o.filled = o.amount => o.id \notin Ids(Left)

\* C17: a trade with volume 0, or for a sid without open orders, gives no
\* transaction and leaves the open orders as they were; a trade never changes
\* the open orders of another sid.
C17_NothingToFill ==
    TradeHandled =>
        /\ (last_trade.volume = 0 \/ Found = <<>>) =>
              ~last_txn.made /\ open_orders = orders_before
        /\ \A s \in DOMAIN orders_before \ {last_trade.sid} :
              s \in DOMAIN open_orders /\ open_orders[s] = orders_before[s]

\* C18: a volume-share transaction carries the commission |amount| *
\* commission * direction, positive for a buy and negative for a sell, and a
\* price impact of the sign of its amount.
C18_CommissionAndImpact ==
    (TradeHandled /\ style = VOLUME_SHARE /\ last_txn.made) =>
        /\ last_txn.commission = Abs(last_txn.amount) * commission * Sign(last_txn.amount)
        /\ last_txn.price.base = last_trade.price
        /\ Sign(last_txn.price.num) = Sign(last_txn.amount)

\* C19: under FixedSlippage a buy is priced at the trade price + spread / 2 and
\* a sell at the trade price - spread / 2.
C19_FixedSpread ==
    (TradeHandled /\ style = FIXED_SLIPPAGE /\ last_txn.made) =>
        last_txn.price = Price(last_trade.price, Sign(last_txn.amount) * spread, 2)

RECURSIVE SumOpen(_)
SumOpen(orders) ==
    IF orders = <<>> THEN 0
    ELSE Head(orders).amount - Head(orders).filled + SumOpen(Tail(orders))

\* C20: a trade handled by FixedSlippage for a sid with open orders gives a
\* transaction for their whole outstanding quantity and leaves no open order
\* for the sid, also when buys and sells net to zero.
C20_FixedFillsEverything ==
    (TradeHandled /\ style = FIXED_SLIPPAGE /\ Found # <<>>) =>
        /\ SumOpen(Found) # 0 => last_txn.made /\ last_txn.amount = SumOpen(Found)
        /\ Left = <<>>


(***************************************************************************)
(* Properties of the order path (SpecPipe)                                 *)
(***************************************************************************)
Count(q, Test(_)) == Len(SelectSeq(q, Test))
IsOrderFrame(f) == f.kind = ORDER
IsOrderEvent(f) == f.dt # None
FromOrderSource(e) == e.source_id = OrderSource

\* the orders on each leg of the path from the client to the simulator
OrdersWaiting  == Count(order_socket, IsOrderFrame)
OrdersRelayed  == Count(data_chan[OrderSource], IsOrderEvent)
OrdersBuffered == Count(data_buffer[OrderSource], IsOrderEvent)
OrdersObserved == Count(feed_socket, FromOrderSource)

\* C21: every call order(sid, amount), amount # 0, is exactly one Order event
\* on the path Trading Client -> Order Source -> Feed -> Transaction Simulator,
\* none lost and none duplicated, and the Order Source's sent_count is the
\* number of the calls it has relayed: with nothing left on the order socket,
\* the number of calls.
C21_EveryOrderDelivered ==
    /\ OrdersWaiting + OrdersRelayed + OrdersBuffered + OrdersObserved = orders_placed
    /\ sent_count = OrdersRelayed + OrdersBuffered + OrdersObserved
    /\ OrdersWaiting = 0 => sent_count = orders_placed

IsEmpty(f) == f.dt = None

\* C22: a do_work iteration of the Order Source that ends on BREAK has sent
\* the Feed exactly the count Order events it received when count >= 1, and
\* exactly one Empty event when it received none.
C22_OneEventPerTick ==
    last_iter.ended =>
        IF last_iter.count >= 1
           THEN /\ Len(last_iter.sent) = last_iter.count
                /\ Count(last_iter.sent, IsEmpty) = 0
           ELSE /\ Len(last_iter.sent) = 1
                /\ Count(last_iter.sent, IsEmpty) = 1


(***************************************************************************)
(* Properties of the Trading Client (SpecClient)                           *)
(***************************************************************************)
\* the merged events the client has received so far, in delivery order
Received == SubSeq(feed_socket, 1, client_read)

\* C23: process_event is called for every merged event the client receives,
\* in delivery order, and before any handle_frame callback whose frame
\* includes the event; no received event bypasses the Performance Tracker.
C23_TrackerSeesEveryEvent ==
    /\ perf_log = Received
    /\ \A i \in 1..Len(frames) :
          \A j \in 1..Len(frames[i].events) :
              \E n \in 1..frames[i].processed : perf_log[n] = frames[i].events[j]

\* C24: when the client's loop is marked done after end-of-stream, it has
\* signalled DONE to the Order Source and then called
\* handle_simulation_end() of the Performance Tracker, exactly once.
C24_EndOfStream ==
    client_done =>
        client_log = <<"signal_order_done", "handle_simulation_end", "signal_done">>


(***************************************************************************)
(* Properties of the Performance Tracker (SpecPerf)                        *)
(***************************************************************************)
cumulative_positions == perf.cumulative_performance.positions
todays_positions == perf.todays_performance.positions

\* C25: after any sequence of processed events, for every sid the amount of
\* cumulative_performance.positions[sid] is the sum of the amounts of the
\* transactions processed for that sid, also after the position was closed
\* to zero and reopened.  A sid without a position has had no transaction.
C25_AmountIsSumOfTransactions ==
    \A sid \in Sids :
        IF has_key(cumulative_positions, sid)
        THEN cumulative_positions[sid].amount = txn_sums[sid]
        ELSE txn_sums[sid] = 0

\* a position that a transaction closed to zero holds shares again
C25_Witness ==
    /\ perf_error = "none"
    /\ \E sid \in closed_sids : cumulative_positions[sid].amount # 0


\* C26: max_capital_used never decreases: after each process_event, with or
\* without a transaction, with capital use growing or shrinking, it is
\* greater than or equal to its value before.
C26_MaxCapitalNeverDecreases ==
    [][perf'.max_capital_used >= perf.max_capital_used]_vars

\* the capital in use has come back to nothing below a positive maximum
C26_Witness ==
    /\ perf_error = "none"
    /\ perf.txn_count >= 2
    /\ perf.max_capital_used > 0
    /\ perf.cumulative_capital_used = 0


\* C27: after every event that carries a transaction, max_capital_used is a
\* multiple of 5000 and at least 1.1 * |cumulative_capital_used|: the
\* cushion is rounded up to the grid, so max_capital_used is never smaller
\* than the capital in use.
C27_CushionRoundedUp ==
    (perf_error = "none" /\ last_event # NoPerfEvent
        /\ last_event.TRANSACTION # NoTransaction)
    => /\ perf.max_capital_used % 5000 = 0
       /\ 10 * perf.max_capital_used >= 11 * Abs(perf.cumulative_capital_used)


AllPositions ==
    {cumulative_positions[sid] : sid \in DOMAIN cumulative_positions} \cup
    {todays_positions[sid] : sid \in DOMAIN todays_positions}

\* C28: in every reachable state of a Position, cost_basis >= 0, and
\* cost_basis = 0 whenever amount = 0, for any sequence of buys and sells at
\* positive prices, also when one transaction takes the position from long
\* to short or from short to long.
C28_CostBasisNotNegative ==
    \A pos \in AllPositions :
        /\ SignOf(pos.cost_basis) >= 0
        /\ pos.amount = 0 => SignOf(pos.cost_basis) = 0


\* C29: with events processed in non-decreasing dt order from period_start
\* on, every event is accounted to the trading day that contains it: after
\* process_event(e) returns, market_open <= e.dt < market_close, so that e's
\* transaction went to the todays_performance of that window, also when e
\* comes several trading days after the previous event or between one
\* day's close and the next day's open.
C29_EventInsideMarketWindow ==
    (perf_error = "none" /\ last_event # NoPerfEvent)
    => /\ perf.market_open <= last_event.dt
       /\ last_event.dt < perf.market_close


Holding(positions) == [sid \in DOMAIN positions |->
                          <<positions[sid].amount, positions[sid].cost_basis>>]

\* C30: a day rollover replaces todays_performance with a period whose
\* starting_cash is the previous period's ending_cash, whose starting_value
\* is the previous period's ending_value, whose period_capital_used is 0 and
\* whose positions have the same amounts and cost bases as before; it leaves
\* cumulative_performance, cumulative_capital_used and max_capital_used
\* unchanged.
C30_RolloverFrame ==
    last_rollover.rolled =>
        LET old == last_rollover.before
            new == last_rollover.after
        IN  /\ new.todays_performance.starting_cash = old.todays_performance.ending_cash
            /\ new.todays_performance.starting_value = old.todays_performance.ending_value
            /\ new.todays_performance.period_capital_used = 0
            /\ Holding(new.todays_performance.positions)
                   = Holding(old.todays_performance.positions)
            /\ new.cumulative_performance = old.cumulative_performance
            /\ new.cumulative_capital_used = old.cumulative_capital_used
            /\ new.max_capital_used = old.max_capital_used

\* a day that traded, ended with shares held and capital used, is rolled over
C30_Witness ==
    /\ perf_error = "none"
    /\ last_rollover.rolled
    /\ last_rollover.before.todays_performance.period_capital_used # 0
    /\ last_rollover.before.todays_performance.ending_value # 0
    /\ last_rollover.before.max_capital_used > 0
    /\ \E sid \in DOMAIN last_rollover.before.todays_performance.positions :
          last_rollover.before.todays_performance.positions[sid].amount # 0


\* the trading days of the calendar that lie after the day of a datetime
LaterDays(env, dt) ==
    {env.trading_days[i] : i \in DOMAIN env.trading_days} \cap
    {day \in normalize_date(dt) + 1 .. period_end + calendar_day : TRUE}

Earliest(days) == CHOOSE day \in days : \A other \in days : day <= other

\* C31: on rollover market_open advances to the first trading day of the
\* calendar strictly after the current market day, skipping every
\* non-trading day, and market_close = market_open + 6h30m; the skip loop
\* ends, with an error exactly when the calendar holds no later trading day.
C31_RolloverToNextTradingDay ==
    /\ last_rollover.rolled =>
          LET old   == last_rollover.before
              new   == last_rollover.after
              later == LaterDays(old.trading_environment, old.market_open)
          IN  /\ later # {}
              /\ normalize_date(new.market_open) = Earliest(later)
              /\ new.market_open - normalize_date(new.market_open)
                     = old.market_open - normalize_date(old.market_open)
              /\ new.market_close = new.market_open + trading_day
    /\ perf_error = "Exception" =>
          LaterDays(perf.trading_environment, perf.market_close - trading_day) = {}

\* a rollover that has skipped a day off
C31_Witness ==
    /\ perf_error = "none"
    /\ last_rollover.rolled
    /\ last_rollover.after.market_open
          > last_rollover.before.market_open + calendar_day


\* C38: before any transaction has been processed, both performance periods
\* report pnl = 0 and returns = 0 after calculate_performance: with no
\* positions and no capital used, ending_cash + ending_value equals
\* starting_cash + starting_value.
Calculated(period) == period.returns.set
C38_NoTransactionNoPnl ==
    perf.txn_count = 0 =>
        \A period \in {perf.cumulative_performance, perf.todays_performance} :
            Calculated(period) =>
                /\ period.pnl = 0
                /\ period.returns.num = 0
                /\ period.ending_cash + period.ending_value
                      = period.starting_cash + period.starting_value

\* C39: after every process_event, and across any number of day rollovers,
\* todays_performance and cumulative_performance hold positions for the same
\* sids with equal amount and equal cost_basis for each sid; the two periods
\* never hold the same positions object, so each has had every transaction
\* applied exactly once.
C39_PeriodsAgree ==
    /\ Holding(todays_positions) = Holding(cumulative_positions)
    /\ ~shared_positions(perf)
    /\ \A sid \in DOMAIN todays_positions :
          /\ todays_positions[sid].amount = txn_sums[sid]
          /\ cumulative_positions[sid].amount = txn_sums[sid]

\* after two rollovers a transaction has changed a position that both
\* periods already held
C39_Witness ==
    /\ perf_error = "none"
    /\ perf.day_count >= 2
    /\ last_event.TRANSACTION # NoTransaction
    /\ perf.txn_count >= 2
    /\ todays_positions[last_event.TRANSACTION.sid].amount
          # last_event.TRANSACTION.amount
    /\ todays_positions[last_event.TRANSACTION.sid].amount # 0

(***************************************************************************)
(* Properties of the wire formats (SpecWire)                               *)
(***************************************************************************)
SameFields(a, b) ==
    /\ DOMAIN a = DOMAIN b
    /\ \A key \in DOMAIN a : a[key] = b[key]

\* C32: for every event type (Trade, Order, Transaction, Empty) and every
\* event of that type with a UTC dt, decoding the encoded event returns an
\* event equal to it field by field: the same set of fields, the same
\* values, dt equal to the microsecond.
C32_DecodeOfEncode ==
    wire_in # NoWire => SameFields(wire_out, wire_in)


(***************************************************************************)
(* Properties of Position.update and execute_transaction (SpecAcct)        *)
(***************************************************************************)
\* C33: Position.update with a transaction whose sid differs from the
\* position's sid raises an error, and only then, and leaves the position's
\* amount and cost_basis unchanged; execute_transaction never raises it,
\* because every position of a period is kept under its own sid.
C33_ForeignSidRaises ==
    /\ acct_call.call = "update" =>
          /\ (acct_call.error = "NameError")
                <=> (acct_call.txn.sid # acct_call.before.sid)
          /\ acct_call.error = "NameError" =>
                /\ acct_position.amount = acct_call.before.amount
                /\ acct_position.cost_basis = acct_call.before.cost_basis
    /\ acct_call.call = "execute_transaction" => acct_call.error = "none"
    /\ \A sid \in DOMAIN acct_period.positions :
          acct_period.positions[sid].sid = sid

\* a position that holds shares refused a transaction for another sid, next
\* to a period that has executed a transaction
C33_Witness ==
    /\ acct_call.call = "update"
    /\ acct_call.error = "NameError"
    /\ acct_call.before.amount # 0
    /\ DOMAIN acct_period.positions # {}

(***************************************************************************)
(* Properties of fills and transactions (SpecFill)                         *)
(***************************************************************************)
\* filled of an order of the latest trade's sid, after the trade
FilledAfter(o) == IF o.id \in Ids(last_fills) THEN AfterOf(o.id).filled ELSE o.filled

RECURSIVE FilledChange(_)
FilledChange(orders) ==
    IF orders = <<>> THEN 0
    ELSE FilledAfter(Head(orders)) - Head(orders).filled + FilledChange(Tail(orders))

\* C34: the amount of the transaction a trade gives (0 when it gives none)
\* is the total change of `filled` the trade made, so that the transactions
\* of a sid add up to the `filled` of its orders; an order leaves open_orders
\* only fully filled or expired; and after a trade that lies beyond the
\* lifetime of every order of its sid, open_orders[sid] exists and is empty.
C34_TransactionsMatchFilled ==
    TradeHandled =>
        LET Expired(o) == Lapse(o, last_trade) > orderTTL
        IN  /\ last_txn.amount = FilledChange(Found)
            /\ \A o \in Range(Found) :
                  o.id \notin Ids(Left) => FilledAfter(o) = o.amount \/ Expired(o)
            /\ (last_trade.sid \in DOMAIN orders_before
                  /\ \A o \in Range(Found) : Expired(o))
                  => last_trade.sid \in DOMAIN open_orders /\ Left = <<>>

(***************************************************************************)
(* Properties of the transaction simulator as a transform (SpecSim)        *)
(***************************************************************************)
\* the event of the do_work call that a step makes, if it makes one
Worked(event) == feed_recv' = Append(feed_recv, event)

\* C35: TransactionSimulator.transform of an Order event never yields a
\* transaction: the value of the state it returns is None.  When amount # 0
\* it appends the order at the end of open_orders[sid], leaving every other
\* order where it was, and adds one to order_count; when amount = 0 it
\* leaves open_orders and order_count unchanged.
C35_OrderTransform ==
    [][\A event \in FeedOrders : Worked(event) =>
          LET old == OrdersOfSid(open_orders, event.sid)
          IN  /\ sim_state'.value = NoTxn
              /\ IF event.amount # 0
                 THEN /\ order_count' = order_count + 1
                      /\ DOMAIN open_orders' = DOMAIN open_orders \cup {event.sid}
                      /\ Len(open_orders'[event.sid]) = Len(old) + 1
                      /\ SubSeq(open_orders'[event.sid], 1, Len(old)) = old
                      /\ LET order == open_orders'[event.sid][Len(old) + 1]
                         IN  /\ order.sid = event.sid
                             /\ order.amount = event.amount
                             /\ order.dt = event.dt
                      /\ \A sid \in DOMAIN open_orders \ {event.sid} :
                            open_orders'[sid] = open_orders[sid]
                 ELSE /\ open_orders' = open_orders
                      /\ order_count' = order_count]_vars

\* an order has been appended behind an open order of its sid, and the
\* state holds no transaction
C35_Witness ==
    /\ feed_recv # <<>>
    /\ LET event == feed_recv[Len(feed_recv)]
       IN  /\ event.type = DATASOURCE_TYPE.ORDER
           /\ event.amount # 0
           /\ Len(OrdersOfSid(open_orders, event.sid)) >= 2
           /\ sim_state.value = NoTxn

DatesFed == {returns_fed[i].dt.date : i \in 1..Len(returns_fed)}
CompletedDays == DatesFed \ {returns_fed[Len(returns_fed)].dt.date}

\* the last event fed of a date
CloseOfDay(date) ==
    LET last == CHOOSE i \in 1..Len(returns_fed) :
                   /\ returns_fed[i].dt.date = date
                   /\ \A j \in (i + 1)..Len(returns_fed) : returns_fed[j].dt.date # date
    IN  returns_fed[last]

\* the n most recent of the completed days
RECURSIVE MostRecent(_, _)
MostRecent(dates, n) ==
    IF n = 0 \/ dates = {} THEN {}
    ELSE LET latest == CHOOSE d \in dates : \A other \in dates : other <= d
         IN  {latest} \cup MostRecent(dates \ {latest}, n - 1)

\* C37: for a tracker with days = N fed events in non-decreasing dt order,
\* after every update closes holds at most N events, the last events of the
\* most recent completed days in chronological order; get_returns() is None
\* until N day changes have been observed, and from then on it is
\* (event.price - p) / p for the latest event, p being the closing price N
\* completed days back.
C37_ReturnsFromPriorClose ==
    returns_fed # <<>> =>
        LET N      == returns_tracker.days
            closes == returns_tracker.closes
            kept   == MostRecent(CompletedDays, N)
            event  == returns_fed[Len(returns_fed)]
        IN  /\ Len(closes) <= N
            /\ Len(closes) = Cardinality(kept)
            /\ \A i \in 1..Len(closes) :
                  /\ closes[i].dt.date \in kept
                  /\ closes[i] = CloseOfDay(closes[i].dt.date)
                  /\ i > 1 => closes[i - 1].dt.date < closes[i].dt.date
            /\ IF Cardinality(CompletedDays) < N
               THEN get_returns(returns_tracker) = Unset
               ELSE LET back == CHOOSE d \in kept : \A other \in kept : d <= other
                        p    == CloseOfDay(back).price
                    IN  get_returns(returns_tracker)
                            = Float(Frac(event.price - p, p))

\* a tracker of two days has dropped its oldest close and reports the return
\* on a close that is neither its latest close nor the latest price
C37_Witness ==
    /\ returns_tracker.days = 2
    /\ returns_fed # <<>>
    /\ Len(returns_tracker.closes) = 2
    /\ Cardinality(CompletedDays) = 3
    /\ returns_tracker.closes[1].price # returns_tracker.closes[2].price
    /\ returns_tracker.returns.set
    /\ returns_tracker.returns.num # 0

(***************************************************************************)
(* Properties of the Controller after shutdown() (SpecCtlLive)             *)
(***************************************************************************)
\* shutdown() was called on a Controller whose _poll is running
ShutDown == ctl_pc \in {"managed", "poll", "beat"} /\ ~polling

\* no step of the Controller sets `terminated`: the statement that would is
\* behind a loop without exit
NeverTerminated == terminated = FALSE

\* after shutdown() the loop of _poll still starts iterations, each with a
\* heartbeat sent and beat() run
HeartbeatAfterShutdown == ShutDown /\ ctl_pc = "poll"

=============================================================================
